---- MODULE Spec2Model ----
(***************************************************************************)
(* A model of the package-compilation action builder of rules_go:          *)
(* compileArchive (go/tools/builders/compilepkg.go), its deferred calls,   *)
(* the concurrent nogo task and the archive the stages write.              *)
(*                                                                         *)
(* A path is the pair <<directory, base name>>; an error value is the      *)
(* one-element sequence holding its message and nil is the empty sequence. *)
(***************************************************************************)
EXTENDS Integers, Sequences, FiniteSets, TLC

\* ------------------------------------------------------------------ bounds

MaxGo == 2
MaxAsm == 2
MaxCgo == 2
MaxHdr == 2
MaxChars == 2
MaxObj == 2
MaxMem == 2
MaxPkgs == 2

\* ----------------------------------------------------------------- helpers

Nil == <<>>

Range(s) == {s[k] : k \in 1..Len(s)}

SeqsUpTo(S, n) == UNION {[1..k -> S] : k \in 0..n}

DistinctSeqsUpTo(S, n) ==
    {s \in SeqsUpTo(S, n) : \A j, k \in 1..Len(s) : j # k => s[j] # s[k]}

Join(dir, base) == <<dir, base>>

Dir(p) == p[1]

Base(p) == p[2]

ErrorsNew(text) == <<text>>

Errorf(prefix, detail) == <<prefix \o detail>>

\* ------------------------------------------------------------------- state

VARIABLES
    unfilteredSrcs, testFilter, goroot, tmpdir, gcFlags, asmFlags, coverIn, coverVar,
    srcs, deps, cgoArchivePaths, coverMode, coverSrcs, nogoPath,
    pc, defers, retErr,
    goSrcs, stdImports, importcfgPath, asmHdrPath, symabisPath,
    idx, objPaths, names, allObjPaths,
    files, archive,
    nogoChan, cancelled, nogo, nogoRun, nogoArgs, nogoResult,
    log, failed, objOf,
    packArgs, packPc, packFs, objects, archiveObjects, packErr, packRan,
    relArgs, relPc, defVersion, gitLog, remoteLog, releases, mirror, archFile,
    oldVersion, release, relErr, relRan,
    listPkgs, jsonPkgs, errs, wg, worker, pkgPc, pkgIdx, zipFile, pkgErr

\* The state of the pack tool, a program of its own that compileArchive
\* never touches.
packV == <<packArgs, packPc, packFs, objects, archiveObjects, packErr, packRan>>

PackIdle ==
    /\ packArgs = <<>>
    /\ packPc = "idle"
    /\ packFs = <<>>
    /\ objects = <<>>
    /\ archiveObjects = <<>>
    /\ packErr = <<>>
    /\ packRan = <<>>

\* The state of the releaser, another program of its own: its flags, what it
\* sees of the repository, the remote, GitHub and the mirror, and its locals.
relWorldV == <<defVersion, gitLog, remoteLog, releases, mirror, archFile>>
relV == <<relArgs, relPc, relWorldV, oldVersion, release, relErr, relRan>>

RelIdle ==
    /\ relArgs = <<>>
    /\ relPc = "idle"
    /\ defVersion = ""
    /\ gitLog = <<>>
    /\ remoteLog = <<>>
    /\ releases = <<>>
    /\ mirror = {}
    /\ archFile = FALSE
    /\ oldVersion = ""
    /\ release = <<>>
    /\ relErr = <<>>
    /\ relRan = <<>>

\* The state of stdPkgData, a third program of its own: the packages "go
\* list" printed, the two arrays the workers fill, the WaitGroup, where each
\* worker and the main flow are, the output file and the named result err.
pkgV == <<listPkgs, jsonPkgs, errs, wg, worker, pkgPc, pkgIdx, zipFile, pkgErr>>

PkgIdle ==
    /\ listPkgs = <<>>
    /\ jsonPkgs = <<>>
    /\ errs = <<>>
    /\ wg = 0
    /\ worker = <<>>
    /\ pkgPc = "idle"
    /\ pkgIdx = 0
    /\ zipFile = <<>>
    /\ pkgErr = <<>>

inputV == <<unfilteredSrcs, testFilter, goroot, tmpdir, gcFlags, asmFlags, coverIn, coverVar, packV, relV, pkgV, deps, cgoArchivePaths, coverMode, coverSrcs, nogoPath>>
flowV == <<pc, defers, retErr>>
dataV == <<goSrcs, stdImports, importcfgPath, asmHdrPath, symabisPath>>
loopV == <<idx, objPaths, names, allObjPaths>>
fsV == <<files, archive>>
nogoV == <<nogoChan, cancelled, nogo, nogoRun, nogoArgs, nogoResult>>
histV == <<log, failed, objOf>>

vars == <<srcs, inputV, flowV, dataV, loopV, fsV, nogoV, histV>>

\* Everything that belongs to compilePkg and compileArchive.
compileV == <<srcs, unfilteredSrcs, testFilter, goroot, tmpdir, gcFlags, asmFlags, coverIn, coverVar,
              deps, cgoArchivePaths, coverMode, coverSrcs, nogoPath,
              flowV, dataV, loopV, fsV, nogoV, histV>>

\* ------------------------------------------------------------------ inputs

\* The working directory of the process.
Cwd == "/cwd"

\* The directory names without a leading slash that occur.
RelDirs ==
    {"out", "src", "hdr", "inc", "deps", "cgo", "tmp", "work", "tmp/work",
     "pkg/include", "goroot/pkg/include", "cwd"}

\* filepath.IsAbs on a directory name: it starts with a slash.
IsAbsDir(d) == \E rest \in RelDirs \cup {"cwd/" \o r : r \in RelDirs} : d = "/" \o rest

\* filepath.Join on directory names: empty elements are ignored.
JoinDir(a, b) == IF a = "" THEN b ELSE IF b = "" THEN a ELSE a \o "/" \o b

\* abs: a path that is not absolute is joined to the working directory of
\* the process.
Abs(p) == IF IsAbsDir(Dir(p)) THEN p ELSE Join(JoinDir(Cwd, Dir(p)), Base(p))

\* The values of the TMPDIR environment variable: unset or a relative directory.
TmpdirChoices == {"", "tmp"}

\* os.TempDir: $TMPDIR, or /tmp when it is empty.
TempDir == IF tmpdir = "" THEN "/tmp" ELSE tmpdir

\* The directory workDir returns: a new directory under os.TempDir.
WorkDirPath == JoinDir(TempDir, "work")

OutDir == "out"

\* outPath = abs(outPath), of the value of -o.
outPath == Abs(Join(OutDir, "lib.a"))

\* The compiler flags after the first "--": none, a -trimpath or a -I with
\* a relative directory.
GcFlagChoices ==
    { <<>>,
      <<<<"-trimpath">>, Join("src", "")>>,
      <<<<"-I">>, Join("inc", "")>> }

\* The second group of arguments splitArgs cuts off: the flags for the
\* assembler.
AsmFlagChoices == {<<>>, <<"-D", "GOOS_linux">>}

\* The value of -p.
packagePath == "example.com/p"

outFactsPath == Join(OutDir, "lib.x")

StdPackages == {"fmt", "os"}

PseudoImports == {"C", "unsafe"}

GoFiles ==
    { [filename |-> Join("src", "a.go"), pkg |-> "p", imports |-> {"fmt"}],
      [filename |-> Join("src", "b.go"), pkg |-> "p",
       imports |-> {"example.com/dep", "unsafe"}],
      [filename |-> Join("src", "c_test.go"), pkg |-> "p_test",
       imports |-> {"example.com/undeclared"}] }

\* The assembly sources of an invocation with n of them, in input order.
AsmFiles(n) == [k \in 1..n |-> Join("src", "f" \o ToString(k) \o ".s")]

DepChoices ==
    { <<>>,
      <<[importPath |-> "example.com/dep", packagePath |-> "example.com/dep",
         file |-> Join("deps", "dep.a"), xFile |-> Join("deps", "dep.x")]>> }

\* Dependencies with and without a facts file, and more than one of them.
ArgsDepChoices ==
    LET dep == [importPath |-> "example.com/dep", packagePath |-> "example.com/dep",
                file |-> Join("deps", "dep.a"), xFile |-> Join("deps", "dep.x")]
        bare == [importPath |-> "example.com/bare", packagePath |-> "example.com/bare",
                 file |-> Join("deps", "bare.a"), xFile |-> <<>>]
    IN  { <<dep>>, <<bare, dep>>, <<dep, bare>> }

CgoArchives == {Join("cgo", "libA.a"), Join("cgo", "libB.a")}

\* The member names of the native archives on disk, in archive order.
ArchiveMembers(arc) ==
    IF arc = Join("cgo", "libA.a") THEN <<"foo.o", "bar.o">>
    ELSE IF arc = Join("cgo", "libC.a") THEN <<"s0.o", "qux.o">>
    ELSE <<"bar.o", "baz.o", "baz.o">>

\* The header files an invocation can be given; two share a directory.
HdrFiles ==
    { [filename |-> Join("src", "x.h")],
      [filename |-> Join("src", "y.h")],
      [filename |-> Join("hdr", "z.h")] }

\* The values of the GOROOT environment variable: unset or set.
GorootChoices == {"", "/goroot"}

NogoPaths == {"", "nogo"}

CoverChoices ==
    { [mode |-> "", cover |-> <<>>],
      [mode |-> "", cover |-> <<Join("src", "a.go")>>],
      [mode |-> "set",
       cover |-> <<Join("src", "a.go"), Join("src", "b.go"), Join("src", "z.go")>>] }

\* emit_compilepkg: -nogo and -x are passed, and the facts file is declared
\* an output of the action, only when a nogo binary is configured.
DeclaredOutputs(nogoBin) ==
    IF nogoBin # "" THEN {outPath, outFactsPath} ELSE {outPath}

NogoOutputs == {"", "nogo: finding"}

CompilerMembers == <<"__.PKGDEF", "_go_.o">>

\* An entry of the log: a stage of the main flow, its outcome and, where a
\* stage has them, the arguments it ran with.
Event(stage, ok) == [stage |-> stage, ok |-> ok, arg |-> <<>>]

Init ==
    /\ srcs \in [goSrcs : DistinctSeqsUpTo(GoFiles, MaxGo),
                 sSrcs : {AsmFiles(n) : n \in 0..MaxAsm},
                 hSrcs : {<<>>}]
    /\ unfilteredSrcs = srcs.goSrcs
    /\ testFilter = "off"
    /\ coverIn = <<>>
    /\ PackIdle
    /\ RelIdle
    /\ PkgIdle
    /\ coverVar = <<>>
    /\ goroot = "/goroot"
    /\ tmpdir = ""
    /\ gcFlags = <<>>
    /\ asmFlags = <<>>
    /\ deps \in DepChoices
    /\ cgoArchivePaths \in SeqsUpTo(CgoArchives, MaxCgo)
    /\ \E c \in CoverChoices : coverMode = c.mode /\ coverSrcs = c.cover
    /\ nogoPath \in NogoPaths
    /\ pc = "workDir"
    /\ defers = <<>>
    /\ retErr = Nil
    /\ goSrcs = <<>>
    /\ stdImports = {}
    /\ importcfgPath = <<>>
    /\ asmHdrPath = <<>>
    /\ symabisPath = <<>>
    /\ idx = 0
    /\ objPaths = <<>>
    /\ names = {}
    /\ allObjPaths = <<>>
    /\ files = {}
    /\ archive = <<>>
    /\ nogoChan = "nil"
    /\ cancelled = FALSE
    /\ nogo = "none"
    /\ nogoRun = [outcome |-> "none", out |-> ""]
    /\ nogoArgs = <<>>
    /\ nogoResult = Nil
    /\ log = <<>>
    /\ failed = {}
    /\ objOf = <<>>

\* ------------------------------------------------------------ return paths

\* "return err": the function body is left and the deferred calls run next.
Return(err) ==
    /\ pc' = "return"
    /\ retErr' = err

\* A variant that runs the deferred calls in the order they were deferred.
PushFirstInFirstOut(call) == defers' = Append(defers, call)

\* defer: the call deferred last runs first.
Push(call) == defers' = <<call>> \o defers

\* A stage that ran: its place in the order of the main flow and its outcome.
Ran(stage, ok) ==
    /\ log' = Append(log, Event(stage, ok))
    /\ failed' = IF ok THEN failed ELSE failed \cup {stage}

\* A stage that ran with the given arguments.
RanWith(stage, ok, arg) ==
    /\ log' = Append(log, [stage |-> stage, ok |-> ok, arg |-> arg])
    /\ failed' = IF ok THEN failed ELSE failed \cup {stage}

\* A stage that ran a subprocess with the given command line.
RanCmd(stage, ok, arg, cmd) ==
    /\ log' = Append(log, [stage |-> stage, ok |-> ok, arg |-> arg, cmd |-> cmd])
    /\ failed' = IF ok THEN failed ELSE failed \cup {stage}

Pop == defers' = Tail(defers)

\* ------------------------------------------------- collaborators' results

\* checkDirectDeps: the first import, in source order, that is neither a
\* pseudo-import, a standard-library package nor a direct dependency is an
\* error naming the import and the source file; otherwise the
\* standard-library imports are returned.
CheckDirectDeps(goInfos, ds) ==
    LET declared == {ds[k].importPath : k \in 1..Len(ds)}
        Bad(k) == (goInfos[k].imports \ PseudoImports) \ (StdPackages \cup declared)
        offenders == {k \in 1..Len(goInfos) : Bad(k) # {}}
        std == UNION {goInfos[k].imports \cap StdPackages : k \in 1..Len(goInfos)}
    IN  IF offenders = {}
        THEN [err |-> Nil, stdImports |-> std]
        ELSE LET k == CHOOSE j \in offenders : \A m \in offenders : j <= m
                 imp == CHOOSE x \in Bad(k) : TRUE
             IN  [err |-> <<"import of " \o imp \o " in " \o Base(goInfos[k].filename)
                            \o ": not a direct dependency">>,
                  stdImports |-> {}]

\* extractFiles: the members of one native archive are extracted into dir in
\* archive order; a member whose name is in seen (or was extracted earlier
\* from the same archive) is skipped.
RECURSIVE ExtractMembers(_, _, _)
ExtractMembers(members, dir, seen) ==
    IF members = <<>> THEN [objPaths |-> <<>>, names |-> seen]
    ELSE IF Head(members) \in seen
         THEN ExtractMembers(Tail(members), dir, seen)
         ELSE LET rest == ExtractMembers(Tail(members), dir, seen \cup {Head(members)})
              IN  [objPaths |-> <<Join(dir, Head(members))>> \o rest.objPaths,
                   names |-> rest.names]

ExtractFiles(arc, dir, seen) == ExtractMembers(ArchiveMembers(arc), dir, seen)

\* appendFiles: "pack r" appends the named objects to the archive, after the
\* members it already holds.
AppendFiles(members, objs) == members \o [k \in 1..Len(objs) |-> Base(objs[k])]

\* The deferred cleanup of env.workDir: the directory and all it holds go.
Cleanup(fs) == {p \in fs : Dir(p) # WorkDirPath}

\* ---------------------------------------------------- compileArchive, head

Filenames(infos) == [k \in 1..Len(infos) |-> infos[k].filename]

emptyPath == Join(WorkDirPath, "_empty.go")

\* A variant that does not defer the cleanup.
WorkDirNoCleanup ==
    /\ pc = "workDir"
    /\ \/ /\ files' = files \cup {Join(WorkDirPath, "")}
          /\ pc' = "empty"
          /\ Ran("workDir", TRUE)
          /\ UNCHANGED <<retErr, defers>>
       \/ /\ Return(<<"workDir: cannot create temporary directory">>)
          /\ Ran("workDir", FALSE)
          /\ UNCHANGED <<files, defers>>
    /\ UNCHANGED <<srcs, inputV, dataV, loopV, archive, nogoV, objOf>>

WorkDir ==
    /\ pc = "workDir"
    /\ \/ /\ files' = files \cup {Join(WorkDirPath, "")}
          /\ Push("cleanup")
          /\ pc' = "empty"
          /\ Ran("workDir", TRUE)
          /\ UNCHANGED retErr
       \/ /\ Return(<<"workDir: cannot create temporary directory">>)
          /\ Ran("workDir", FALSE)
          /\ UNCHANGED <<files, defers>>
    /\ UNCHANGED <<srcs, inputV, dataV, loopV, archive, nogoV, objOf>>

\* A variant that compiles an empty source list as it is.
EmptySrcNoPlaceholder ==
    /\ pc = "empty"
    /\ goSrcs' = Filenames(srcs.goSrcs)
    /\ pc' = "checkDeps"
    /\ UNCHANGED <<srcs, defers, retErr, files, log, failed>>
    /\ UNCHANGED <<inputV, stdImports, importcfgPath, asmHdrPath, symabisPath,
                   loopV, archive, nogoV, objOf>>

EmptySrc ==
    /\ pc = "empty"
    /\ IF Len(srcs.goSrcs) = 0
       THEN \/ /\ files' = files \cup {emptyPath}
               /\ srcs' = [srcs EXCEPT !.goSrcs =
                      Append(@, [filename |-> emptyPath, pkg |-> "empty", imports |-> {}])]
               /\ Push("removeEmpty")
               /\ goSrcs' = Filenames(srcs'.goSrcs)
               /\ pc' = "checkDeps"
               /\ Ran("writeEmpty", TRUE)
               /\ UNCHANGED retErr
            \/ /\ files' \in {files, files \cup {emptyPath}}
               /\ Return(<<"write _empty.go: failed">>)
               /\ Ran("writeEmpty", FALSE)
               /\ UNCHANGED <<srcs, defers, goSrcs>>
       ELSE /\ goSrcs' = Filenames(srcs.goSrcs)
            /\ pc' = "checkDeps"
            /\ UNCHANGED <<srcs, defers, retErr, files, log, failed>>
    /\ UNCHANGED <<inputV, stdImports, importcfgPath, asmHdrPath, symabisPath,
                   loopV, archive, nogoV, objOf>>

\* A variant that drops the error of checkDirectDeps.
CheckDepsIgnoreErr ==
    /\ pc = "checkDeps"
    /\ LET r == CheckDirectDeps(srcs.goSrcs, deps)
       IN  /\ stdImports' = r.stdImports
           /\ pc' = "importcfg"
           /\ Ran("checkDeps", r.err = Nil)
           /\ UNCHANGED retErr
    /\ UNCHANGED <<srcs, inputV, defers, goSrcs, importcfgPath, asmHdrPath,
                   symabisPath, loopV, fsV, nogoV, objOf>>

CheckDeps ==
    /\ pc = "checkDeps"
    /\ LET r == CheckDirectDeps(srcs.goSrcs, deps)
       IN  IF r.err # Nil
           THEN /\ Return(r.err)
                /\ Ran("checkDeps", FALSE)
                /\ UNCHANGED stdImports
           ELSE /\ stdImports' = r.stdImports
                /\ pc' = "importcfg"
                /\ Ran("checkDeps", TRUE)
                /\ UNCHANGED retErr
    /\ UNCHANGED <<srcs, inputV, defers, goSrcs, importcfgPath, asmHdrPath,
                   symabisPath, loopV, fsV, nogoV, objOf>>

BuildImportcfg ==
    /\ pc = "importcfg"
    /\ \/ /\ importcfgPath' = Join(Dir(outPath), "importcfg")
          /\ files' = files \cup {importcfgPath'}
          /\ Push("removeImportcfg")
          /\ pc' = "cover"
          /\ Ran("importcfg", TRUE)
          /\ UNCHANGED retErr
       \/ /\ Return(<<"importcfg: cannot write">>)
          /\ Ran("importcfg", FALSE)
          /\ UNCHANGED <<importcfgPath, files, defers>>
    /\ UNCHANGED <<srcs, inputV, goSrcs, stdImports, asmHdrPath, symabisPath,
                   loopV, archive, nogoV, objOf>>

CoverEnabledAlways == TRUE

\* if coverMode != ""
CoverEnabled == coverMode # ""

\* shouldCover[origSrc]: the map holds the paths given with -cover.
ShouldCover(origSrc) == origSrc \in Range(coverSrcs)

CoverSrcNameFixed(i) == Join(WorkDirPath, "cover.go")

\* coverSrc := filepath.Join(workDir, fmt.Sprintf("cover_%d.go", i))
CoverSrcName(i) == Join(WorkDirPath, "cover_" \o ToString(i) \o ".go")

\* A variant that goes on with the next source when the instrumenter fails.
CoverKeepGoing ==
    /\ pc = "cover"
    /\ IF ~CoverEnabled \/ idx = Len(goSrcs)
       THEN /\ pc' = "nogo"
            /\ idx' = 0
            /\ UNCHANGED <<goSrcs, files, retErr, log, failed>>
       ELSE LET origSrc == goSrcs[idx + 1]
                coverSrc == CoverSrcName(idx)
            IN  IF ~ShouldCover(origSrc)
                THEN /\ idx' = idx + 1
                     /\ UNCHANGED <<pc, goSrcs, files, retErr, log, failed>>
                ELSE \/ /\ goSrcs' = [goSrcs EXCEPT ![idx + 1] = coverSrc]
                        /\ files' = files \cup {coverSrc}
                        /\ idx' = idx + 1
                        /\ RanWith("cover", TRUE, [src |-> origSrc, out |-> coverSrc])
                        /\ UNCHANGED <<pc, retErr>>
                     \/ /\ idx' = idx + 1
                        /\ RanWith("cover", FALSE, [src |-> origSrc, out |-> coverSrc])
                        /\ UNCHANGED <<pc, retErr, goSrcs, files>>
    /\ UNCHANGED <<srcs, inputV, defers, stdImports, importcfgPath, asmHdrPath,
                   symabisPath, objPaths, names, allObjPaths, archive, nogoV, objOf>>

\* One iteration of the coverage loop; idx is the loop variable i.
Cover ==
    /\ pc = "cover"
    /\ IF ~CoverEnabled \/ idx = Len(goSrcs)
       THEN /\ pc' = "nogo"
            /\ idx' = 0
            /\ UNCHANGED <<goSrcs, files, retErr, log, failed>>
       ELSE LET origSrc == goSrcs[idx + 1]
                coverSrc == CoverSrcName(idx)
            IN  IF ~ShouldCover(origSrc)
                THEN /\ idx' = idx + 1
                     /\ UNCHANGED <<pc, goSrcs, files, retErr, log, failed>>
                ELSE \/ /\ goSrcs' = [goSrcs EXCEPT ![idx + 1] = coverSrc]
                        /\ files' = files \cup {coverSrc}
                        /\ idx' = idx + 1
                        /\ RanWith("cover", TRUE, [src |-> origSrc, out |-> coverSrc])
                        /\ UNCHANGED <<pc, retErr>>
                     \/ /\ Return(<<"cover: " \o Base(origSrc) \o ": failed">>)
                        /\ RanWith("cover", FALSE, [src |-> origSrc, out |-> coverSrc])
                        /\ UNCHANGED <<goSrcs, files, idx>>
    /\ UNCHANGED <<srcs, inputV, defers, stdImports, importcfgPath, asmHdrPath,
                   symabisPath, objPaths, names, allObjPaths, archive, nogoV, objOf>>

\* A variant that starts the task without looking at nogoPath.
StartNogoAlways ==
    /\ pc = "nogo"
    /\ nogoChan' = "open"
    /\ nogo' = "spawned"
    /\ Push("nogoJoin")
    /\ log' = Append(log, Event("go runNogo", TRUE))
    /\ pc' = "symabis"
    /\ UNCHANGED <<srcs, inputV, retErr, dataV, loopV, fsV, cancelled, nogoRun, nogoArgs, nogoResult,
                   failed, objOf>>

\* The goroutine is started and the cancel-and-join is deferred.
StartNogo ==
    /\ pc = "nogo"
    /\ IF nogoPath # ""
       THEN /\ nogoChan' = "open"
            /\ nogo' = "spawned"
            /\ Push("nogoJoin")
            /\ log' = Append(log, Event("go runNogo", TRUE))
       ELSE UNCHANGED <<nogoChan, nogo, defers, log>>
    /\ pc' = "symabis"
    /\ UNCHANGED <<srcs, inputV, retErr, dataV, loopV, fsV, cancelled, nogoRun, nogoArgs, nogoResult,
                   failed, objOf>>

\* ---------------------------------------------------- compileArchive, tail

\* A variant that repacks the native archives before the assembly objects.
StageOrderCgoFirst == <<"cgo", "asm", "join">>

\* A variant that receives the result of nogo right after the compile step.
StageOrderJoinFirst == <<"join", "asm", "cgo">>

\* The stages that follow the compile step, in program order; each is
\* skipped when its input list is empty.
StageOrder == <<"asm", "cgo", "join">>

StageEnabled(stage) ==
    IF stage = "asm" THEN Len(srcs.sSrcs) > 0
    ELSE IF stage = "cgo" THEN Len(cgoArchivePaths) > 0
    ELSE TRUE

\* The first stage after position k of StageOrder that is not skipped.
NextStage(k) ==
    LET later == {j \in (k + 1)..Len(StageOrder) : StageEnabled(StageOrder[j])}
    IN  StageOrder[CHOOSE j \in later : \A m \in later : j <= m]

StageIndex(stage) == CHOOSE k \in 1..Len(StageOrder) : StageOrder[k] = stage

symabisTmp == Join(TempDir, "symabis")

\* A variant that looks at the error first and defers the removal after it.
BuildSymabisErrFirst ==
    /\ pc = "symabis"
    /\ asmHdrPath' = IF Len(srcs.sSrcs) > 0 THEN Join(WorkDirPath, "go_asm.h") ELSE <<>>
    /\ IF Len(srcs.sSrcs) = 0
       THEN /\ pc' = "compile"
            /\ UNCHANGED <<symabisPath, files, defers, retErr, log, failed>>
       ELSE \E path \in {<<>>, symabisTmp}, ok \in BOOLEAN :
                /\ symabisPath' = path
                /\ files' = IF path # <<>> THEN files \cup {path} ELSE files
                /\ IF path # <<>> /\ ok
                   THEN Push("removeSymabis")
                   ELSE UNCHANGED defers
                /\ Ran("symabis", ok)
                /\ IF ok
                   THEN pc' = "compile" /\ UNCHANGED retErr
                   ELSE Return(<<"symabis: asm failed">>)
    /\ UNCHANGED <<srcs, inputV, goSrcs, stdImports, importcfgPath, loopV, archive,
                   nogoV, objOf>>

\* buildSymabisFile returns a path, an error or both; without assembly
\* sources it returns neither.
BuildSymabis ==
    /\ pc = "symabis"
    /\ asmHdrPath' = IF Len(srcs.sSrcs) > 0 THEN Join(WorkDirPath, "go_asm.h") ELSE <<>>
    /\ IF Len(srcs.sSrcs) = 0
       THEN /\ pc' = "compile"
            /\ UNCHANGED <<symabisPath, files, defers, retErr, log, failed>>
       ELSE \E path \in {<<>>, symabisTmp}, ok \in BOOLEAN :
                /\ symabisPath' = path
                /\ IF path # <<>>
                   THEN files' = files \cup {path} /\ Push("removeSymabis")
                   ELSE UNCHANGED <<files, defers>>
                /\ Ran("symabis", ok)
                /\ IF ok
                   THEN pc' = "compile" /\ UNCHANGED retErr
                   ELSE Return(<<"symabis: asm failed">>)
    /\ UNCHANGED <<srcs, inputV, goSrcs, stdImports, importcfgPath, loopV, archive,
                   nogoV, objOf>>

\* A variant that goes on after a failed compile.
CompileGoIgnoreErr ==
    /\ pc = "compile"
    /\ \/ /\ archive' = CompilerMembers
          /\ files' = files \cup {outPath}
                            \cup (IF asmHdrPath # <<>> THEN {asmHdrPath} ELSE {})
          /\ Ran("compile", TRUE)
       \/ /\ Ran("compile", FALSE)
          /\ UNCHANGED <<archive, files>>
    /\ pc' = NextStage(0)
    /\ UNCHANGED <<srcs, inputV, defers, retErr, dataV, loopV, nogoV, objOf>>

\* A variant that runs the compiler again after a failure.
CompileGoRetry ==
    /\ pc = "compile"
    /\ \/ /\ archive' = CompilerMembers
          /\ files' = files \cup {outPath}
                            \cup (IF asmHdrPath # <<>> THEN {asmHdrPath} ELSE {})
          /\ pc' = NextStage(0)
          /\ RanWith("compile", TRUE, goSrcs)
          /\ UNCHANGED retErr
       \/ /\ Cardinality({k \in 1..Len(log) : log[k].stage = "compile"}) < 2
          /\ RanWith("compile", FALSE, goSrcs)
          /\ UNCHANGED <<pc, retErr, archive, files>>
    /\ UNCHANGED <<srcs, inputV, defers, dataV, loopV, nogoV, objOf>>

\* An argument that is not a path: a flag name, a word.
Str(word) == <<word>>

\* absArgs: the value that follows one of the named flags is made absolute.
AbsArgs(args, flagNames) ==
    [i \in 1..Len(args) |->
        IF i > 1 /\ Len(args[i]) = 2 /\ \E f \in flagNames : args[i - 1] = Str(f)
        THEN Abs(args[i])
        ELSE args[i]]

CompileArgsSrcsFirst(srcList, pkg, icfg, asmHdr, symabis, flags, out) ==
    <<Str("compile"), Str("-p"), Str(pkg), Str("-importcfg"), icfg, Str("-pack")>>
        \o (IF asmHdr # <<>> THEN <<Str("-asmhdr"), asmHdr>> ELSE <<>>)
        \o (IF symabis # <<>> THEN <<Str("-symabis"), symabis>> ELSE <<>>)
        \o flags
        \o <<Str("--")>>
        \o srcList
        \o <<Str("-o"), out>>

\* The command line compileGo builds, before absArgs.
CompileArgs(srcList, pkg, icfg, asmHdr, symabis, flags, out) ==
    <<Str("compile"), Str("-p"), Str(pkg), Str("-importcfg"), icfg, Str("-pack")>>
        \o (IF asmHdr # <<>> THEN <<Str("-asmhdr"), asmHdr>> ELSE <<>>)
        \o (IF symabis # <<>> THEN <<Str("-symabis"), symabis>> ELSE <<>>)
        \o flags
        \o <<Str("-o"), out>>
        \o <<Str("--")>>
        \o srcList

\* The command line the compiler is run with.
CompileCmd ==
    AbsArgs(CompileArgs(goSrcs, packagePath, importcfgPath, asmHdrPath, symabisPath,
                        gcFlags, outPath),
            {"-I", "-o", "-trimpath", "-importcfg"})

CompileGo ==
    /\ pc = "compile"
    /\ \/ /\ archive' = CompilerMembers
          /\ files' = files \cup {outPath}
                            \cup (IF asmHdrPath # <<>> THEN {asmHdrPath} ELSE {})
          /\ pc' = NextStage(0)
          /\ RanCmd("compile", TRUE, goSrcs, CompileCmd)
          /\ UNCHANGED retErr
       \/ /\ Return(<<"compile: exit status 1">>)
          /\ RanCmd("compile", FALSE, goSrcs, CompileCmd)
          /\ UNCHANGED <<archive, files>>
    /\ UNCHANGED <<srcs, inputV, defers, dataV, loopV, nogoV, objOf>>

\* A variant of the assembler loop that goes on to the next file after a
\* failed assembler run.
AsmFileKeepGoing ==
    /\ pc = "asm"
    /\ idx < Len(srcs.sSrcs)
    /\ LET obj == Join(WorkDirPath, "s" \o ToString(idx) \o ".o")
       IN  /\ objPaths' = Append(objPaths, obj)
           /\ objOf' = Append(objOf, [obj |-> Base(obj), from |-> srcs.sSrcs[idx + 1],
                                      at |-> idx])
           /\ idx' = idx + 1
           /\ pc' = IF idx + 1 = Len(srcs.sSrcs) THEN "asmPack" ELSE "asm"
           /\ \/ files' = files \cup {obj} /\ Ran("asm", TRUE)
              \/ UNCHANGED files /\ Ran("asm", FALSE)
    /\ UNCHANGED <<srcs, inputV, defers, retErr, dataV, names, allObjPaths, archive,
                   nogoV>>

AsmObjNameFixed(i) == Join(WorkDirPath, "s.o")

\* The keys of includeSet: GOROOT/pkg/include, workDir and the directory of
\* every header.
IncludeSetOf(gorootEnv, workDir) ==
    {JoinDir(JoinDir(gorootEnv, "pkg"), "include"), workDir}
        \cup {Dir(srcs.hSrcs[k].filename) : k \in 1..Len(srcs.hSrcs)}

\* os.Getenv("GOROOT") is the value the process finds in its environment.
IncludeSet == IncludeSetOf(goroot, WorkDirPath)

\* The orders in which a range over the map can yield its keys.
MapOrders(S) ==
    {o \in [1..Cardinality(S) -> S] : \A j, k \in 1..Cardinality(S) : j # k => o[j] # o[k]}

\* make([]string, n): a slice of n empty strings.
MakeStrings(n) == [k \in 1..n |-> ""]

\* The directory names that occur, in the byte order of sort.Strings.
SortedDirs ==
    <<"", "/goroot/pkg/include", "/tmp/work", "hdr", "pkg/include", "src", "tmp/work">>

RECURSIVE SortFrom(_, _)
SortFrom(list, k) ==
    IF k > Len(SortedDirs) THEN <<>>
    ELSE SelectSeq(list, LAMBDA x : x = SortedDirs[k]) \o SortFrom(list, k + 1)

\* sort.Strings
SortStrings(list) == SortFrom(list, 1)

\* includes := make([]string, len(includeSet)), then one append per key of
\* the map, then sort.Strings(includes).
Includes(order) == SortStrings(MakeStrings(Cardinality(IncludeSet)) \o order)

RECURSIVE IncludeFlags(_)
\* asmFlags = append(asmFlags, "-I", inc) for each element of includes.
IncludeFlags(includes) ==
    IF includes = <<>> THEN <<>>
    ELSE <<"-I", Head(includes)>> \o IncludeFlags(Tail(includes))

\* asmFlags := make([]string, 0, len(includeSet)*2): a new variable of the
\* block, empty, that hides the parameter of the same name.
AsmFlagsOfBlock == <<>>

\* objPaths[i] = filepath.Join(workDir, fmt.Sprintf("s%d.o", i))
AsmObjName(i) == Join(WorkDirPath, "s" \o ToString(i) \o ".o")

\* One iteration of the assembler loop; idx is the loop variable i.
AsmFile ==
    /\ pc = "asm"
    /\ idx < Len(srcs.sSrcs)
    /\ \E order \in MapOrders(IncludeSet) :
       LET obj == AsmObjName(idx)
           run == [src |-> srcs.sSrcs[idx + 1], obj |-> obj,
                   flags |-> AsmFlagsOfBlock \o IncludeFlags(Includes(order))]
       IN  \/ /\ objPaths' = Append(objPaths, obj)
              /\ files' = files \cup {obj}
              /\ objOf' = Append(objOf, [obj |-> Base(obj), from |-> srcs.sSrcs[idx + 1], at |-> idx])
              /\ idx' = idx + 1
              /\ pc' = IF idx + 1 = Len(srcs.sSrcs) THEN "asmPack" ELSE "asm"
              /\ RanWith("asm", TRUE, run)
              /\ UNCHANGED retErr
           \/ /\ Return(<<"asm: exit status 1">>)
              /\ RanWith("asm", FALSE, run)
              /\ UNCHANGED <<objPaths, files, objOf, idx>>
    /\ UNCHANGED <<srcs, inputV, defers, dataV, names, allObjPaths, archive, nogoV>>

\* A failed "pack r" leaves the archive with some of the objects appended.
AppendAsm ==
    /\ pc = "asmPack"
    /\ \/ /\ archive' = AppendFiles(archive, objPaths)
          /\ pc' = NextStage(StageIndex("asm"))
          /\ idx' = 0
          /\ RanWith("asmPack", TRUE, objPaths)
          /\ UNCHANGED retErr
       \/ /\ \E k \in 0..Len(objPaths) :
                archive' = AppendFiles(archive, SubSeq(objPaths, 1, k))
          /\ Return(<<"pack: exit status 1">>)
          /\ RanWith("asmPack", FALSE, objPaths)
          /\ UNCHANGED idx
    /\ UNCHANGED <<srcs, inputV, defers, dataV, objPaths, names, allObjPaths, files,
                   nogoV, objOf>>

\* A variant that starts every archive with an empty set of seen names.
SeenNamesPerArchive == {}

\* The one set of member names that all extractFiles calls share.
SeenNames == names

\* A variant that puts the objects of a later archive in front.
AppendAllInFront(all, objs) == objs \o all

\* allObjPaths = append(allObjPaths, objPaths...)
AppendAll(all, objs) == all \o objs

\* A variant that skips an archive it cannot extract and merges the rest.
ExtractCgoSkipFailed ==
    /\ pc = "cgo"
    /\ idx < Len(cgoArchivePaths)
    /\ \/ LET r == ExtractFiles(cgoArchivePaths[idx + 1], WorkDirPath, SeenNames)
          IN  /\ names' = r.names
              /\ allObjPaths' = AppendAll(allObjPaths, r.objPaths)
              /\ files' = files \cup Range(r.objPaths)
              /\ objOf' = objOf \o [k \in 1..Len(r.objPaths) |->
                     [obj |-> Base(r.objPaths[k]), from |-> cgoArchivePaths[idx + 1],
                      at |-> idx]]
              /\ Ran("extract", TRUE)
       \/ /\ Ran("extract", FALSE)
          /\ UNCHANGED <<names, allObjPaths, files, objOf>>
    /\ idx' = idx + 1
    /\ pc' = IF idx + 1 = Len(cgoArchivePaths) THEN "cgoPack" ELSE "cgo"
    /\ UNCHANGED <<srcs, inputV, defers, retErr, dataV, objPaths, archive, nogoV>>

\* One iteration of the native-archive loop; idx counts the archives done.
ExtractCgo ==
    /\ pc = "cgo"
    /\ idx < Len(cgoArchivePaths)
    /\ \/ LET r == ExtractFiles(cgoArchivePaths[idx + 1], WorkDirPath, SeenNames)
          IN  /\ names' = r.names
              /\ allObjPaths' = AppendAll(allObjPaths, r.objPaths)
              /\ files' = files \cup Range(r.objPaths)
              /\ objOf' = objOf \o [k \in 1..Len(r.objPaths) |->
                     [obj |-> Base(r.objPaths[k]), from |-> cgoArchivePaths[idx + 1],
                      at |-> idx]]
              /\ idx' = idx + 1
              /\ pc' = IF idx + 1 = Len(cgoArchivePaths) THEN "cgoPack" ELSE "cgo"
              /\ Ran("extract", TRUE)
              /\ UNCHANGED retErr
       \/ /\ Return(<<"extract: cannot read archive">>)
          /\ Ran("extract", FALSE)
          /\ UNCHANGED <<names, allObjPaths, files, idx, objOf>>
    /\ UNCHANGED <<srcs, inputV, defers, dataV, objPaths, archive, nogoV>>

AppendCgo ==
    /\ pc = "cgoPack"
    /\ \/ /\ archive' = AppendFiles(archive, allObjPaths)
          /\ pc' = NextStage(StageIndex("cgo"))
          /\ idx' = 0
          /\ RanWith("cgoPack", TRUE, allObjPaths)
          /\ UNCHANGED retErr
       \/ /\ \E k \in 0..Len(allObjPaths) :
                archive' = AppendFiles(archive, SubSeq(allObjPaths, 1, k))
          /\ Return(<<"pack: exit status 1">>)
          /\ RanWith("cgoPack", FALSE, allObjPaths)
          /\ UNCHANGED idx
    /\ UNCHANGED <<srcs, inputV, defers, dataV, objPaths, names, allObjPaths, files,
                   nogoV, objOf>>

\* A variant without "nogoChan = nil" after the receive.
JoinNogoKeepChan ==
    /\ pc = "join"
    /\ IF nogoChan = "nil"
       THEN /\ Return(Nil)
            /\ UNCHANGED <<nogo, log>>
       ELSE /\ nogo = "sending"
            /\ nogo' = "exited"
            /\ Return(nogoResult)
            /\ log' = Append(log, Event("join", nogoResult = Nil))
    /\ UNCHANGED <<srcs, inputV, defers, dataV, loopV, fsV, nogoChan, cancelled, nogoRun, nogoArgs,
                   nogoResult, failed, objOf>>

\* "Check results from nogo": the receive blocks until the task sends.
JoinNogo ==
    /\ pc = "join"
    /\ IF nogoChan = "nil"
       THEN /\ Return(Nil)
            /\ UNCHANGED <<nogoChan, nogo, log>>
       ELSE /\ nogo = "sending"
            /\ nogo' = "exited"
            /\ nogoChan' = "nil"
            /\ Return(nogoResult)
            /\ log' = Append(log, Event("join", nogoResult = Nil))
    /\ UNCHANGED <<srcs, inputV, defers, dataV, loopV, fsV, cancelled, nogoRun, nogoArgs,
                   nogoResult, failed, objOf>>

\* ------------------------------------------------------- deferred calls

\* A deferred call that ran, in the order of the unwinding.
Unwound(call) == log' = Append(log, Event("defer " \o call, TRUE))

Deferred(call) ==
    /\ pc = "return"
    /\ defers # <<>>
    /\ Head(defers) = call

DeferRemoveSymabis ==
    /\ Deferred("removeSymabis")
    /\ files' = files \ {symabisPath}
    /\ Pop
    /\ Unwound("removeSymabis")
    /\ UNCHANGED <<srcs, inputV, pc, retErr, dataV, loopV, archive, nogoV, failed, objOf>>

\* A variant that cancels the task and does not wait for it.
DeferNogoForget ==
    /\ Deferred("nogoJoin")
    /\ Pop
    /\ IF nogoChan # "nil"
       THEN cancelled' = TRUE /\ Unwound("cancel")
       ELSE UNCHANGED <<cancelled, log>>
    /\ UNCHANGED <<srcs, inputV, pc, retErr, dataV, loopV, fsV, nogoChan, nogo,
                   nogoRun, nogoArgs, nogoResult, failed, objOf>>

\* A variant without the test of nogoChan: it cancels and receives always.
DeferNogoUnguarded ==
    /\ Deferred("nogoJoin")
    /\ cancelled' = TRUE
    /\ defers' = <<"nogoRecv">> \o Tail(defers)
    /\ Unwound("cancel")
    /\ UNCHANGED <<srcs, inputV, pc, retErr, dataV, loopV, fsV, nogoChan, nogo,
                   nogoRun, nogoArgs, nogoResult, failed, objOf>>

\* cancel(), then the receive that waits for the task; skipped when the
\* result was already received.
DeferNogo ==
    /\ Deferred("nogoJoin")
    /\ IF nogoChan # "nil"
       THEN /\ cancelled' = TRUE
            /\ defers' = <<"nogoRecv">> \o Tail(defers)
            /\ Unwound("cancel")
       ELSE /\ Pop
            /\ UNCHANGED <<cancelled, log>>
    /\ UNCHANGED <<srcs, inputV, pc, retErr, dataV, loopV, fsV, nogoChan, nogo,
                   nogoRun, nogoArgs, nogoResult, failed, objOf>>

\* A variant in which the deferred receive returns what it received.
DeferNogoRecvReturnsResult ==
    /\ Deferred("nogoRecv")
    /\ nogo = "sending"
    /\ nogo' = "exited"
    /\ retErr' = IF nogoResult # Nil THEN nogoResult ELSE retErr
    /\ Pop
    /\ Unwound("nogoRecv")
    /\ UNCHANGED <<srcs, inputV, pc, dataV, loopV, fsV, nogoChan, cancelled,
                   nogoRun, nogoArgs, nogoResult, failed, objOf>>

\* <-nogoChan in the deferred function: the value received is dropped.
DeferNogoRecv ==
    /\ Deferred("nogoRecv")
    /\ nogo = "sending"
    /\ nogo' = "exited"
    /\ Pop
    /\ Unwound("nogoRecv")
    /\ UNCHANGED <<srcs, inputV, pc, retErr, dataV, loopV, fsV, nogoChan, cancelled,
                   nogoRun, nogoArgs, nogoResult, failed, objOf>>

DeferRemoveImportcfg ==
    /\ Deferred("removeImportcfg")
    /\ files' = files \ {importcfgPath}
    /\ Pop
    /\ Unwound("removeImportcfg")
    /\ UNCHANGED <<srcs, inputV, pc, retErr, dataV, loopV, archive, nogoV, failed, objOf>>

DeferRemoveEmpty ==
    /\ Deferred("removeEmpty")
    /\ files' = files \ {emptyPath}
    /\ Pop
    /\ Unwound("removeEmpty")
    /\ UNCHANGED <<srcs, inputV, pc, retErr, dataV, loopV, archive, nogoV, failed, objOf>>

DeferCleanup ==
    /\ Deferred("cleanup")
    /\ files' = Cleanup(files)
    /\ Pop
    /\ Unwound("cleanup")
    /\ UNCHANGED <<srcs, inputV, pc, retErr, dataV, loopV, archive, nogoV, failed, objOf>>

\* All deferred calls have run: compileArchive has returned retErr.
Returned ==
    /\ pc = "return"
    /\ defers = <<>>
    /\ pc' = "done"
    /\ UNCHANGED <<srcs, inputV, defers, retErr, dataV, loopV, fsV, nogoV, histV>>

\* -------------------------------------------------------- the nogo task

\* A variant that reports a fixed text for a failed analysis.
RunNogoErrFixedText(outcome, out, detail) ==
    IF outcome = "ok" THEN Nil
    ELSE IF outcome = "exit" THEN ErrorsNew("nogo: analysis failed")
    ELSE Errorf("error running nogo: ", detail)

\* A variant that reports the captured output for every failure of cmd.Run.
RunNogoErrAlwaysOutput(outcome, out, detail) ==
    IF outcome = "ok" THEN Nil ELSE ErrorsNew(out)

\* The error runNogo makes of cmd.Run's outcome: nil, the captured output
\* for a process that ran and failed, the OS error for one that did not run.
RunNogoErr(outcome, out, detail) ==
    IF outcome = "ok" THEN Nil
    ELSE IF outcome = "exit" THEN ErrorsNew(out)
    ELSE Errorf("error running nogo: ", detail)

NogoFactsArgIsArchive == outPath

\* args = append(args, "-x", outFactsPath): the file the process writes.
NogoFactsArg == outFactsPath

NogoFactsOfAll(ds) ==
    [k \in 1..Len(ds) |-> [importPath |-> ds[k].importPath, xFile |-> ds[k].xFile]]

\* One -fact importPath=xFile for each dependency whose xFile is not empty.
NogoFacts(ds) ==
    LET withFacts == SelectSeq(ds, LAMBDA d : d.xFile # <<>>)
    IN  [k \in 1..Len(withFacts) |->
            [importPath |-> withFacts[k].importPath, xFile |-> withFacts[k].xFile]]

\* A variant that hands the sources as they were given, not the list in
\* which the instrumented ones were substituted.
NogoArgsOrigSrcs ==
    [tool |-> nogoPath,
     p |-> packagePath,
     importcfg |-> importcfgPath,
     stdimport |-> stdImports,
     fact |-> NogoFacts(deps),
     x |-> NogoFactsArg,
     srcs |-> Filenames(srcs.goSrcs)]

\* The command line runNogo builds from what the goroutine passes; the
\* values it is built from do not change once the task is started.
NogoArgs ==
    [tool |-> nogoPath,
     p |-> packagePath,
     importcfg |-> importcfgPath,
     stdimport |-> stdImports,
     fact |-> NogoFacts(deps),
     x |-> NogoFactsArg,
     srcs |-> goSrcs]

\* cmd.Run has returned with this outcome and captured output; the task is
\* left with the send of runNogo's result.
NogoDone(outcome, out, detail) ==
    /\ nogoRun' = [outcome |-> outcome, out |-> out]
    /\ nogoArgs' = NogoArgs
    /\ nogoResult' = RunNogoErr(outcome, out, detail)
    /\ nogo' = "sending"
    /\ failed' = IF outcome = "ok" THEN failed ELSE failed \cup {"nogo"}

\* cmd.Run starts the process; a context already cancelled, or a binary
\* that cannot be executed, makes it return without a process.
NogoStart ==
    /\ nogo = "spawned"
    /\ IF cancelled
       THEN NogoDone("start", "", "context canceled")
       ELSE \/ /\ nogo' = "running"
               /\ UNCHANGED <<nogoRun, nogoArgs, nogoResult, failed>>
            \/ NogoDone("start", "", "fork/exec nogo: permission denied")
    /\ UNCHANGED <<srcs, inputV, flowV, dataV, loopV, fsV, nogoChan, cancelled,
                   log, objOf>>

\* The process exits by itself: status 0 with the facts file written, or
\* non-zero with its output captured.
NogoExit ==
    /\ nogo = "running"
    /\ \/ /\ NogoDone("ok", "", "")
          /\ files' = files \cup {NogoFactsArg}
          /\ archive' = IF NogoFactsArg = outPath THEN <<"facts">> ELSE archive
       \/ /\ \E out \in NogoOutputs : NogoDone("exit", out, "")
          /\ UNCHANGED <<files, archive>>
    /\ UNCHANGED <<srcs, inputV, flowV, dataV, loopV, nogoChan, cancelled,
                   log, objOf>>

\* The cancelled context kills the process; cmd.Run reports an exit error.
NogoKilled ==
    /\ nogo = "running"
    /\ cancelled
    /\ \E out \in NogoOutputs : NogoDone("exit", out, "")
    /\ UNCHANGED <<srcs, inputV, flowV, dataV, loopV, fsV, nogoChan, cancelled,
                   log, objOf>>

\* ------------------------------------------------------------- compilePkg

\* The sources compilePkg can be given: GoFiles and an internal test, a file
\* named *_test.go that belongs to the package itself.
UnfilteredGoFiles ==
    GoFiles \cup
    { [filename |-> Join("src", "d_test.go"), pkg |-> "p", imports |-> {"fmt"}] }

\* The values of the -testfilter flag: the three the switch knows and some
\* it does not (a word, the empty string, a known word in another case).
TestFilters == {"off", "only", "exclude", "bogus", "", "Only"}

\* What can stand in front of a suffix in the names of the inputs.
Stems == {"", "p", "a", "b", "c", "d"}

\* strings.HasSuffix
HasSuffix(str, suffix) == \E pre \in Stems : str = pre \o suffix

\* The %q verb on a string without special characters.
Quote(str) == "\"" \o str \o "\""

IsTestPkgByFilename(f) == HasSuffix(Base(f.filename), "_test.go")

\* strings.HasSuffix(f.pkg, "_test")
IsTestPkg(f) == HasSuffix(f.pkg, "_test")

IsLibPkg(f) == ~IsTestPkg(f)

TestFilterSwitchLenient(filter, goInfos) ==
    CASE filter = "only" -> [err |-> Nil, goSrcs |-> SelectSeq(goInfos, IsTestPkg)]
      [] filter = "exclude" -> [err |-> Nil, goSrcs |-> SelectSeq(goInfos, IsLibPkg)]
      [] OTHER -> [err |-> Nil, goSrcs |-> goInfos]

\* switch testFilter: the list compileArchive is called with, or the error.
TestFilterSwitch(filter, goInfos) ==
    CASE filter = "off" -> [err |-> Nil, goSrcs |-> goInfos]
      [] filter = "only" -> [err |-> Nil, goSrcs |-> SelectSeq(goInfos, IsTestPkg)]
      [] filter = "exclude" -> [err |-> Nil, goSrcs |-> SelectSeq(goInfos, IsLibPkg)]
      [] OTHER -> [err |-> Errorf("invalid test filter ", Quote(filter)),
                   goSrcs |-> goInfos]

\* compilePkg from the switch on: it returns the error of the switch or
\* enters compileArchive with the filtered sources.
FilterSrcs ==
    /\ pc = "filter"
    /\ LET r == TestFilterSwitch(testFilter, srcs.goSrcs)
       IN  IF r.err # Nil
           THEN /\ pc' = "done"
                /\ retErr' = r.err
                /\ UNCHANGED srcs
           ELSE /\ pc' = "workDir"
                /\ srcs' = [srcs EXCEPT !.goSrcs = r.goSrcs]
                /\ UNCHANGED retErr
    /\ UNCHANGED <<inputV, defers, dataV, loopV, fsV, nogoV, histV>>

\* -------------------------------------------------------- specification

Next ==
    \/ WorkDir
    \/ EmptySrc
    \/ CheckDeps
    \/ BuildImportcfg
    \/ Cover
    \/ StartNogo
    \/ BuildSymabis
    \/ CompileGo
    \/ AsmFile
    \/ AppendAsm
    \/ ExtractCgo
    \/ AppendCgo
    \/ JoinNogo
    \/ DeferRemoveSymabis
    \/ DeferNogo
    \/ DeferNogoRecv
    \/ DeferRemoveImportcfg
    \/ DeferRemoveEmpty
    \/ DeferCleanup
    \/ Returned
    \/ NogoStart
    \/ NogoExit
    \/ NogoKilled

Spec == Init /\ [][Next]_vars

\* The steps of the goroutine that runs nogo.
TaskNext == NogoStart \/ NogoExit \/ NogoKilled

\* The steps of compileArchive itself, deferred calls included.
MainNext ==
    \/ WorkDir \/ EmptySrc \/ CheckDeps \/ BuildImportcfg \/ Cover \/ StartNogo
    \/ BuildSymabis \/ CompileGo \/ AsmFile \/ AppendAsm \/ ExtractCgo \/ AppendCgo
    \/ JoinNogo \/ DeferRemoveSymabis \/ DeferNogo \/ DeferNogoRecv
    \/ DeferRemoveImportcfg \/ DeferRemoveEmpty \/ DeferCleanup \/ Returned

\* The invocations with at most one input of each kind: every stage can
\* run, be skipped or fail, with and without the task.
LiveInit ==
    /\ Init
    /\ Len(srcs.goSrcs) <= 1
    /\ Len(srcs.sSrcs) <= 1
    /\ Len(cgoArchivePaths) <= 1

\* Both goroutines are scheduled, every subprocess the main flow waits for
\* exits, and so does the nogo process, by itself or when it is killed.
LiveSpec == LiveInit /\ [][Next]_vars /\ WF_vars(MainNext) /\ WF_vars(TaskNext)

\* compilePkg after flag parsing and filterAndSplitFiles: any source list and
\* any -testfilter value, with an invocation that has every kind of input.
CompilePkgInit ==
    /\ unfilteredSrcs \in DistinctSeqsUpTo(UnfilteredGoFiles, MaxGo)
    /\ testFilter \in TestFilters
    /\ coverIn = <<>>
    /\ PackIdle
    /\ RelIdle
    /\ PkgIdle
    /\ coverVar = <<>>
    /\ goroot = "/goroot"
    /\ tmpdir = ""
    /\ gcFlags = <<>>
    /\ asmFlags = <<>>
    /\ srcs = [goSrcs |-> unfilteredSrcs, sSrcs |-> AsmFiles(1), hSrcs |-> <<>>]
    /\ deps \in DepChoices \ {<<>>}
    /\ cgoArchivePaths = <<Join("cgo", "libA.a")>>
    /\ coverMode = "set"
    /\ coverSrcs = <<Join("src", "a.go")>>
    /\ nogoPath = "nogo"
    /\ pc = "filter"
    /\ defers = <<>>
    /\ retErr = Nil
    /\ goSrcs = <<>>
    /\ stdImports = {}
    /\ importcfgPath = <<>>
    /\ asmHdrPath = <<>>
    /\ symabisPath = <<>>
    /\ idx = 0
    /\ objPaths = <<>>
    /\ names = {}
    /\ allObjPaths = <<>>
    /\ files = {}
    /\ archive = <<>>
    /\ nogoChan = "nil"
    /\ cancelled = FALSE
    /\ nogo = "none"
    /\ nogoRun = [outcome |-> "none", out |-> ""]
    /\ nogoArgs = <<>>
    /\ nogoResult = Nil
    /\ log = <<>>
    /\ failed = {}
    /\ objOf = <<>>

\* Invocations that differ in what the command lines are made of. In the
\* first group the headers, GOROOT and TMPDIR vary; in the second the
\* assembly sources and the native archives, one of which holds a member
\* named like an assembler object; in the third the sources, TMPDIR, the
\* compiler flags and the dependencies.
ArgsInputs ==
    [goSrcs : {<<CHOOSE f \in GoFiles : Base(f.filename) = "a.go">>},
     sSrcs : {AsmFiles(1)},
     hSrcs : DistinctSeqsUpTo(HdrFiles, MaxHdr),
     goroot : GorootChoices,
     tmpdir : TmpdirChoices,
     gcFlags : {<<>>},
     asmFlags : {<<>>},
     deps : DepChoices \ {<<>>},
     cgo : {<<Join("cgo", "libA.a")>>}]
    \cup
    [goSrcs : {<<CHOOSE f \in GoFiles : Base(f.filename) = "a.go">>},
     sSrcs : {AsmFiles(n) : n \in 1..MaxAsm},
     hSrcs : {<<>>},
     goroot : {"/goroot"},
     tmpdir : {""},
     gcFlags : {<<>>},
     asmFlags : AsmFlagChoices,
     deps : DepChoices \ {<<>>},
     cgo : {<<Join("cgo", "libC.a")>>, <<Join("cgo", "libA.a"), Join("cgo", "libC.a")>>}]
    \cup
    [goSrcs : {<<>>, <<CHOOSE f \in GoFiles : Base(f.filename) = "b.go">>},
     sSrcs : {AsmFiles(n) : n \in 0..MaxAsm},
     hSrcs : {<<>>},
     goroot : {"/goroot"},
     tmpdir : TmpdirChoices,
     gcFlags : GcFlagChoices,
     asmFlags : {<<>>},
     deps : ArgsDepChoices,
     cgo : {<<Join("cgo", "libA.a")>>}]

ArgsInit ==
    /\ \E c \in ArgsInputs :
           /\ srcs = [goSrcs |-> c.goSrcs, sSrcs |-> c.sSrcs, hSrcs |-> c.hSrcs]
           /\ goroot = c.goroot
           /\ tmpdir = c.tmpdir
           /\ gcFlags = c.gcFlags
           /\ asmFlags = c.asmFlags
           /\ deps = c.deps
           /\ cgoArchivePaths = c.cgo
    /\ unfilteredSrcs = srcs.goSrcs
    /\ testFilter = "off"
    /\ coverIn = <<>>
    /\ PackIdle
    /\ RelIdle
    /\ PkgIdle
    /\ coverVar = <<>>
    /\ coverMode = "set"
    /\ coverSrcs = <<Join("src", "a.go")>>
    /\ nogoPath = "nogo"
    /\ pc = "workDir"
    /\ defers = <<>>
    /\ retErr = Nil
    /\ goSrcs = <<>>
    /\ stdImports = {}
    /\ importcfgPath = <<>>
    /\ asmHdrPath = <<>>
    /\ symabisPath = <<>>
    /\ idx = 0
    /\ objPaths = <<>>
    /\ names = {}
    /\ allObjPaths = <<>>
    /\ files = {}
    /\ archive = <<>>
    /\ nogoChan = "nil"
    /\ cancelled = FALSE
    /\ nogo = "none"
    /\ nogoRun = [outcome |-> "none", out |-> ""]
    /\ nogoArgs = <<>>
    /\ nogoResult = Nil
    /\ log = <<>>
    /\ failed = {}
    /\ objOf = <<>>

ArgsSpec == ArgsInit /\ [][Next]_vars

\* ------------------------------------------------- the coverage identifier

\* The characters of the import paths and file paths tried: a letter, the
\* three characters the replacer knows, the underscore and a character that
\* is legal in a path and not in an identifier.
PathChars == {"a", "/", "-", ".", "_", "+"}

DotGo == <<".", "g", "o">>

\* strings.NewReplacer("/", "_", "-", "_", ".", "_").Replace(path), on a
\* string given as the sequence of its characters.
sanitizePathForIdentifier(path) ==
    [k \in 1..Len(path) |-> IF path[k] \in {"/", "-", "."} THEN "_" ELSE path[k]]

\* origSrc[:len(origSrc)-len(".go")]
TrimDotGo(origSrc) == SubSeq(origSrc, 1, Len(origSrc) - Len(DotGo))

\* fmt.Sprintf("Cover_%s_%s", sanitizePathForIdentifier(importPath),
\*             sanitizePathForIdentifier(origSrc[:len(origSrc)-len(".go")]))
CoverVarOf(importPath, origSrc) ==
    <<"C", "o", "v", "e", "r", "_">>
        \o sanitizePathForIdentifier(importPath)
        \o <<"_">>
        \o sanitizePathForIdentifier(TrimDotGo(origSrc))

\* The identifier of one selected file is derived.
DeriveCoverVar ==
    /\ pc = "coverVar"
    /\ coverVar' = CoverVarOf(coverIn.importPath, coverIn.origSrc)
    /\ pc' = "done"
    /\ UNCHANGED <<srcs, unfilteredSrcs, testFilter, goroot, tmpdir, gcFlags, asmFlags, coverIn,
                   deps, cgoArchivePaths, coverMode, coverSrcs, nogoPath, packV, relV, pkgV,
                   defers, retErr, dataV, loopV, fsV, nogoV, histV>>

\* compileArchive is not running: every variable of it has its zero value.
CompileIdle ==
    /\ srcs = [goSrcs |-> <<>>, sSrcs |-> <<>>, hSrcs |-> <<>>]
    /\ unfilteredSrcs = <<>>
    /\ testFilter = "off"
    /\ goroot = ""
    /\ tmpdir = ""
    /\ gcFlags = <<>>
    /\ asmFlags = <<>>
    /\ deps = <<>>
    /\ cgoArchivePaths = <<>>
    /\ coverMode = "set"
    /\ coverSrcs = <<>>
    /\ nogoPath = ""
    /\ defers = <<>>
    /\ retErr = Nil
    /\ goSrcs = <<>>
    /\ stdImports = {}
    /\ importcfgPath = <<>>
    /\ asmHdrPath = <<>>
    /\ symabisPath = <<>>
    /\ idx = 0
    /\ objPaths = <<>>
    /\ names = {}
    /\ allObjPaths = <<>>
    /\ files = {}
    /\ archive = <<>>
    /\ nogoChan = "nil"
    /\ cancelled = FALSE
    /\ nogo = "none"
    /\ nogoRun = [outcome |-> "none", out |-> ""]
    /\ nogoArgs = <<>>
    /\ nogoResult = Nil
    /\ log = <<>>
    /\ failed = {}
    /\ objOf = <<>>

\* Any import path and any path of a .go file, up to MaxChars characters each
\* before the extension.
CoverVarInit ==
    /\ coverIn \in [importPath : SeqsUpTo(PathChars, MaxChars),
                    origSrc : {stem \o DotGo : stem \in SeqsUpTo(PathChars, MaxChars)}]
    /\ coverVar = <<>>
    /\ pc = "coverVar"
    /\ PackIdle
    /\ RelIdle
    /\ PkgIdle
    /\ CompileIdle

CoverVarNext == DeriveCoverVar

CoverVarSpec == CoverVarInit /\ [][CoverVarNext]_vars

\* The import paths of the invocations with two selected sources.
PairImportPaths == {<<>>, <<"a">>}

\* The coverage loop over two selected sources: one identifier is derived
\* in each iteration, from the import path and the path of the source.
DeriveNextCoverVar ==
    /\ pc = "coverVars"
    /\ Len(coverVar) < Len(coverIn.srcs)
    /\ coverVar' = Append(coverVar,
                          CoverVarOf(coverIn.importPath, coverIn.srcs[Len(coverVar) + 1]))
    /\ pc' = IF Len(coverVar') = Len(coverIn.srcs) THEN "done" ELSE "coverVars"
    /\ UNCHANGED <<srcs, unfilteredSrcs, testFilter, goroot, tmpdir, gcFlags, asmFlags, coverIn,
                   deps, cgoArchivePaths, coverMode, coverSrcs, nogoPath, packV, relV, pkgV,
                   defers, retErr, dataV, loopV, fsV, nogoV, histV>>

\* One import path and two different .go files selected for coverage, of up
\* to MaxChars characters each before the extension.
CoverPairInit ==
    /\ coverIn \in [importPath : PairImportPaths,
                    srcs : UNION {{<<a \o DotGo, b \o DotGo>> :
                                      b \in SeqsUpTo(PathChars, MaxChars) \ {a}} :
                                  a \in SeqsUpTo(PathChars, MaxChars)}]
    /\ coverVar = <<>>
    /\ pc = "coverVars"
    /\ PackIdle
    /\ RelIdle
    /\ PkgIdle
    /\ CompileIdle

CoverPairNext == DeriveNextCoverVar

CoverPairSpec == CoverPairInit /\ [][CoverPairNext]_vars

\* ------------------------------------------------------------ the pack tool

\* The -in and -out arguments emit_pack passes: an input of the action and
\* its one declared output, which are different files.
inArchive == "in.a"
outArchive == "out.a"

\* The native archive emit_pack passes as -arc, when it passes one.
ArcPath == "cgo.a"

Member(name, data) == [name |-> name, data |-> data]

\* A file is absent, an archive (a sequence of members) or an object.
Absent == [exists |-> FALSE, members |-> <<>>, data |-> ""]
ArchiveFile(members) == [exists |-> TRUE, members |-> members, data |-> ""]
ObjectFile(data) == [exists |-> TRUE, members |-> <<>>, data |-> data]

\* The input archive, as the compiler left it.
InMembers == <<Member("_go_.o", "go")>>

\* The objects emit_pack may name with -obj, each with its own content.
ObjNames == {"a.o", "b.o"}

\* The members a native archive may hold.  Two of them have the same name:
\* an archive keeps the base name only, so objects built from sources of the
\* same name in two directories are both x.o.
MemberChoices == {Member("x.o", "d1"), Member("x.o", "d2"), Member("y.o", "d3")}

PackPaths == {inArchive, outArchive, ArcPath} \cup ObjNames
                 \cup {m.name : m \in MemberChoices}

\* flags.Parse, and the files the action finds: its inputs exist, its output
\* may be left over from an earlier run.
PackInit ==
    /\ packArgs \in [obj : SeqsUpTo(ObjNames, MaxObj), arc : {"", ArcPath}]
    /\ \E arcMembers \in SeqsUpTo(MemberChoices, MaxMem),
          stale \in {Absent, ArchiveFile(<<Member("old.o", "old")>>)} :
            /\ packArgs.arc = "" => arcMembers = <<>>
            /\ packFs = [path \in PackPaths |->
                           CASE path = inArchive -> ArchiveFile(InMembers)
                             [] path = outArchive -> stale
                             [] path = ArcPath ->
                                   IF packArgs.arc = "" THEN Absent ELSE ArchiveFile(arcMembers)
                             [] path \in ObjNames -> ObjectFile(path)
                             [] OTHER -> Absent]
    /\ packPc = "copy"
    /\ objects = packArgs.obj
    /\ archiveObjects = <<>>
    /\ packErr = Nil
    /\ packRan = <<>>
    /\ coverIn = <<>>
    /\ coverVar = <<>>
    /\ pc = "done"
    /\ RelIdle
    /\ PkgIdle
    /\ CompileIdle

Step(cmd, ok, args) == [cmd |-> cmd, ok |-> ok, args |-> args]

PackFails(cmd, args, err) ==
    /\ packRan' = Append(packRan, Step(cmd, FALSE, args))
    /\ packErr' = err
    /\ packPc' = "done"

\* copyFile(*inArchive, *outArchive): os.Open, os.Create (which truncates),
\* io.Copy.  A copy that fails midway leaves a part of the input behind.
CopyFile ==
    /\ packPc = "copy"
    /\ \/ /\ packFs' = [packFs EXCEPT ![outArchive] = packFs[inArchive]]
          /\ packRan' = Append(packRan, Step("copy", TRUE, <<inArchive, outArchive>>))
          /\ packPc' = IF packArgs.arc # "" THEN "list" ELSE "append"
          /\ UNCHANGED packErr
       \/ /\ \E text \in {"open in.a", "create out.a"} :
                PackFails("copy", <<inArchive, outArchive>>, ErrorsNew(text))
          /\ UNCHANGED packFs
       \/ /\ \E n \in 0..(Len(packFs[inArchive].members) - 1) :
                packFs' = [packFs EXCEPT ![outArchive] =
                              ArchiveFile(SubSeq(packFs[inArchive].members, 1, n))]
          /\ PackFails("copy", <<inArchive, outArchive>>, ErrorsNew("write out.a"))
    /\ UNCHANGED <<packArgs, objects, archiveObjects, compileV, relV, pkgV>>

\* listFiles(*ar, *archive): the names "ar t" prints, one a line.
ListFiles ==
    /\ packPc = "list"
    /\ \/ /\ archiveObjects' = [k \in 1..Len(packFs[packArgs.arc].members) |->
                                    packFs[packArgs.arc].members[k].name]
          /\ packRan' = Append(packRan, Step("t", TRUE, <<packArgs.arc>>))
          /\ packPc' = "extract"
          /\ UNCHANGED packErr
       \/ /\ PackFails("t", <<packArgs.arc>>, ErrorsNew("exit status 1"))
          /\ UNCHANGED archiveObjects
    /\ UNCHANGED <<packArgs, packFs, objects, compileV, relV, pkgV>>

\* "ar x archive": each of the first n members is written to the working
\* directory under its name, a later one over an earlier one of that name.
RECURSIVE Extracted(_, _, _)
Extracted(fs, members, n) ==
    IF n = 0 THEN fs
    ELSE [Extracted(fs, members, n - 1) EXCEPT
              ![members[n].name] = ObjectFile(members[n].data)]

\* exec.Command(*ar, "x", *archive).Run(), then
\* objects = append(objects, archiveObjects...).
ExtractArchive ==
    /\ packPc = "extract"
    /\ \/ /\ packFs' = Extracted(packFs, packFs[packArgs.arc].members,
                                  Len(packFs[packArgs.arc].members))
          /\ packRan' = Append(packRan, Step("x", TRUE, <<packArgs.arc>>))
          /\ objects' = objects \o archiveObjects
          /\ packPc' = "append"
          /\ UNCHANGED packErr
       \/ /\ \E n \in 0..Len(packFs[packArgs.arc].members) :
                packFs' = Extracted(packFs, packFs[packArgs.arc].members, n)
          /\ PackFails("x", <<packArgs.arc>>, ErrorsNew("exit status 1"))
          /\ UNCHANGED objects
    /\ UNCHANGED <<packArgs, archiveObjects, compileV, relV, pkgV>>

\* "go tool pack r out objects...": every named file is read and added to
\* the end of the archive.
PackAppend ==
    /\ packPc = "append"
    /\ \/ /\ \A k \in 1..Len(objects) : packFs[objects[k]].exists
          /\ packFs' = [packFs EXCEPT ![outArchive] =
                ArchiveFile(@.members \o [k \in 1..Len(objects) |->
                                Member(objects[k], packFs[objects[k]].data)])]
          /\ packRan' = Append(packRan, Step("r", TRUE, <<outArchive>> \o objects))
          /\ UNCHANGED packErr
       \/ /\ packRan' = Append(packRan, Step("r", FALSE, <<outArchive>> \o objects))
          /\ packErr' = ErrorsNew("exit status 1")
          /\ UNCHANGED packFs
    /\ packPc' = "done"
    /\ UNCHANGED <<packArgs, objects, archiveObjects, compileV, relV, pkgV>>

PackNext == CopyFile \/ ListFiles \/ ExtractArchive \/ PackAppend

PackSpec == PackInit /\ [][PackNext]_vars

\* ------------------------------------------------------------ the releaser

\* The version asked for with -version, and the version the tree may record.
Versions == {"0.2.3"}
RecordedVersions == {"0.2.2", "0.2.3"}

\* tag := "v" + version
Tag(version) == "v" \o version

\* fmt.Sprintf("Set RULES_GO_VERSION to %s", version)
SetMsg(version) == "Set RULES_GO_VERSION to " \o version

\* The marker of a go/def.bzl without a RULES_GO_VERSION line.
NotFound == "not found"

\* The subjects of the commits the release branch may hold, oldest first.
GitLogs ==
    {<<"fix">>, <<SetMsg("0.2.2"), "fix">>} \cup
    UNION {{<<SetMsg(v)>>, <<SetMsg(v), "fix">>, <<"fix", SetMsg(v)>>} : v \in Versions}

\* A release of the GitHub repository.  Releases are named after their tags,
\* one release a name.
Release(name, draft, assets) == [name |-> name, draft |-> draft, assets |-> assets]

ReleaseLists ==
    {<<>>, <<Release("v0.2.2", FALSE, <<"old.tar.gz">>)>>}
    \cup UNION {{<<Release(Tag(v), draft, assets)>>,
                 <<Release("v0.2.2", FALSE, <<"old.tar.gz">>), Release(Tag(v), draft, assets)>>}
                    : v \in Versions, draft \in BOOLEAN, assets \in {<<>>, <<"old.tar.gz">>}}

\* The flags are valid and the tree is clean (lines 169-231); the remote
\* branch is absent, behind the local one or equal to it.
RelInit ==
    /\ relArgs \in [version : Versions, runTests : BOOLEAN, updateBoilerplate : BOOLEAN]
    /\ relPc = "sync"
    /\ defVersion \in RecordedVersions \cup {NotFound}
    /\ gitLog \in GitLogs
    /\ remoteLog \in {<<>>, gitLog, SubSeq(gitLog, 1, Len(gitLog) - 1)}
    /\ releases \in ReleaseLists
    /\ mirror = {}
    /\ archFile = FALSE
    /\ oldVersion = ""
    /\ release = Nil
    /\ relErr = Nil
    /\ relRan = <<>>
    /\ coverIn = <<>>
    /\ coverVar = <<>>
    /\ pc = "done"
    /\ PackIdle
    /\ PkgIdle
    /\ CompileIdle

RelFails(cmd, err) ==
    /\ relRan' = Append(relRan, Step(cmd, FALSE, <<>>))
    /\ relErr' = err
    /\ relPc' = "done"

RelDoes(cmd, next) ==
    /\ relRan' = Append(relRan, Step(cmd, TRUE, <<>>))
    /\ relPc' = next
    /\ UNCHANGED relErr

\* syncBranch(ws, releaseBranch)
SyncBranch ==
    /\ relPc = "sync"
    /\ \/ RelDoes("sync", "getVersion")
       \/ RelFails("sync", Errorf("syncing branch: ", "exit status 1"))
    /\ UNCHANGED <<relArgs, relWorldV, oldVersion, release, packV, compileV, pkgV>>

\* oldVersion, err := getRulesGoVersion(ws)
GetRulesGoVersion ==
    /\ relPc = "getVersion"
    /\ \/ /\ defVersion # NotFound
          /\ oldVersion' = defVersion
          /\ RelDoes("getVersion",
                     IF defVersion # relArgs.version THEN "setVersion" ELSE "haveCommits")
       \/ /\ defVersion = NotFound
          /\ RelFails("getVersion", Errorf("go/def.bzl: ", "RULES_GO_VERSION not found"))
          /\ UNCHANGED oldVersion
       \/ /\ RelFails("getVersion", ErrorsNew("open go/def.bzl"))
          /\ UNCHANGED oldVersion
    /\ UNCHANGED <<relArgs, relWorldV, release, packV, compileV, pkgV>>

\* setRulesGoVersionAndCommit(ws, version), then return nil: the file is
\* written, then committed; the run ends there.
SetRulesGoVersionAndCommit ==
    /\ relPc = "setVersion"
    /\ \/ /\ defVersion' = relArgs.version
          /\ gitLog' = Append(gitLog, SetMsg(relArgs.version))
          /\ RelDoes("setVersion", "done")
       \/ /\ defVersion' = relArgs.version
          /\ RelFails("setVersion", ErrorsNew("git commit: exit status 1"))
          /\ UNCHANGED gitLog
       \/ /\ RelFails("setVersion", ErrorsNew("write go/def.bzl"))
          /\ UNCHANGED <<defVersion, gitLog>>
    /\ UNCHANGED <<relArgs, remoteLog, releases, mirror, archFile, oldVersion, release,
                   packV, compileV, pkgV>>

\* msg != fmt.Sprintf("Set RULES_GO_VERSION to %s", version), msg being the
\* subject of the last commit.
HaveCommits(version) == gitLog[Len(gitLog)] # SetMsg(version)

\* haveCommitsSinceVersionSet(ws, version)
HaveCommitsSinceVersionSet ==
    /\ relPc = "haveCommits"
    /\ \/ /\ HaveCommits(relArgs.version)
          /\ RelDoes("haveCommits", "findRelease")
       \/ /\ ~HaveCommits(relArgs.version)
          /\ RelFails("haveCommits",
                      ErrorsNew("no commits on release branch since RULES_GO_VERSION was set"))
       \/ RelFails("haveCommits", ErrorsNew("git log: exit status 1"))
    /\ UNCHANGED <<relArgs, relWorldV, oldVersion, release, packV, compileV, pkgV>>

\* findRelease: the first release whose name is the tag, nil when none is.
Found(version) ==
    LET hits == {k \in 1..Len(releases) : releases[k].name = Tag(version)}
    IN  IF hits = {} THEN Nil
        ELSE releases[CHOOSE k \in hits : \A j \in hits : k <= j]

\* release != nil && !release.GetDraft()
AlreadyReleasedNever(found) == FALSE
AlreadyReleased(found) == found # Nil /\ ~found.draft

\* release, err := findRelease(ctx, ghClient, version) and the two checks
\* that follow it; the tests come next when -test is set.
FindRelease ==
    /\ relPc = "findRelease"
    /\ \/ /\ ~AlreadyReleased(Found(relArgs.version))
          /\ release' = Found(relArgs.version)
          /\ RelDoes("findRelease", IF relArgs.runTests THEN "test" ELSE "push")
       \/ /\ AlreadyReleased(Found(relArgs.version))
          /\ release' = Found(relArgs.version)
          /\ RelFails("findRelease", Errorf("version already released: ", relArgs.version))
       \/ /\ RelFails("findRelease", ErrorsNew("GET releases: 500"))
          /\ UNCHANGED release
    /\ UNCHANGED <<relArgs, relWorldV, oldVersion, packV, compileV, pkgV>>

\* exec.Command("bazel", "test", "//...").Run()
RunTests ==
    /\ relPc = "test"
    /\ \/ RelDoes("test", "push")
       \/ RelFails("test", ErrorsNew("exit status 3"))
    /\ UNCHANGED <<relArgs, relWorldV, oldVersion, release, packV, compileV, pkgV>>

\* pushBranch(ws, releaseBranch): nothing is pushed when the remote branch
\* is where the local one is.
PushBranch ==
    /\ relPc = "push"
    /\ \/ /\ remoteLog = gitLog
          /\ relPc' = "archive"
          /\ UNCHANGED <<remoteLog, relRan, relErr>>
       \/ /\ remoteLog # gitLog
          /\ remoteLog' = gitLog
          /\ RelDoes("push", "archive")
       \/ /\ remoteLog # gitLog
          /\ RelFails("push", Errorf("could not push branch: ", "exit status 1"))
          /\ UNCHANGED remoteLog
    /\ UNCHANGED <<relArgs, defVersion, gitLog, releases, mirror, archFile, oldVersion,
                   release, packV, compileV, pkgV>>

\* createArchive(ws, releaseBranch, archPath), then hashFile(archPath)
CreateArchive ==
    /\ relPc = "archive"
    /\ \/ /\ archFile' = TRUE
          /\ RelDoes("archive", "mirror")
       \/ /\ RelFails("archive", Errorf("could not create archive: ", "exit status 1"))
          /\ UNCHANGED archFile
       \/ /\ archFile' = TRUE
          /\ relRan' = Append(relRan, Step("archive", TRUE, <<>>))
          /\ relErr' = Errorf("error hashing file: ", "read")
          /\ relPc' = "done"
    /\ UNCHANGED <<relArgs, defVersion, gitLog, remoteLog, releases, mirror, oldVersion,
                   release, packV, compileV, pkgV>>

\* The name of the archive of a version.
ArchName(version) == "rules_go-" \o Tag(version) \o ".tar.gz"

\* uploadToMirror(ws, archPath, version)
UploadToMirror ==
    /\ relPc = "mirror"
    /\ \/ /\ mirror' = mirror \cup {ArchName(relArgs.version)}
          /\ RelDoes("mirror", "release")
       \/ /\ RelFails("mirror", Errorf("could not upload to mirror: ", "exit status 1"))
          /\ UNCHANGED mirror
    /\ UNCHANGED <<relArgs, defVersion, gitLog, remoteLog, releases, archFile, oldVersion,
                   release, packV, compileV, pkgV>>

\* The releases after the one named name was replaced by r, or r was added.
WithRelease(r) ==
    IF \E k \in 1..Len(releases) : releases[k].name = r.name
    THEN [k \in 1..Len(releases) |-> IF releases[k].name = r.name THEN r ELSE releases[k]]
    ELSE Append(releases, r)

\* updateRelease: a draft is created when none was found, else the assets of
\* the one found are deleted; then the archive is uploaded to it.  A failure
\* may come before the first call, or between them.
UpdateRelease ==
    /\ relPc = "release"
    /\ \/ /\ releases' = WithRelease(Release(Tag(relArgs.version), TRUE,
                                              <<ArchName(relArgs.version)>>))
          /\ release' = Release(Tag(relArgs.version), TRUE, <<ArchName(relArgs.version)>>)
          /\ RelDoes("release", IF relArgs.updateBoilerplate THEN "boilerplate" ELSE "done")
       \/ /\ releases' = WithRelease(Release(Tag(relArgs.version), TRUE, <<>>))
          /\ RelFails("release", Errorf("could not update relase: ", "upload"))
          /\ UNCHANGED release
       \/ /\ RelFails("release", Errorf("could not update relase: ", "500"))
          /\ UNCHANGED <<releases, release>>
    /\ UNCHANGED <<relArgs, defVersion, gitLog, remoteLog, mirror, archFile, oldVersion,
                   packV, compileV, pkgV>>

\* The boilerplate branch and its pull request: another branch, another
\* push, nothing of the release itself.
UpdateBoilerplate ==
    /\ relPc = "boilerplate"
    /\ \/ RelDoes("boilerplate", "done")
       \/ RelFails("boilerplate", ErrorsNew("exit status 1"))
    /\ UNCHANGED <<relArgs, relWorldV, oldVersion, release, packV, compileV, pkgV>>

RelNext ==
    \/ SyncBranch
    \/ GetRulesGoVersion
    \/ SetRulesGoVersionAndCommit
    \/ HaveCommitsSinceVersionSet
    \/ FindRelease
    \/ RunTests
    \/ PushBranch
    \/ CreateArchive
    \/ UploadToMirror
    \/ UpdateRelease
    \/ UpdateBoilerplate

RelSpec == RelInit /\ [][RelNext]_vars

\* ------------------------------------------------------------- stdPkgData

\* stdPkgData (go/tools/builders/pkgdata.go) from the point where "go list"
\* has been decoded into listPkgs: the arrays, one goroutine a package, the
\* wait, the scan of errs, and the zip file.

stdIDPrefix == "@io_bazel_rules_go//:stdlib%"

\* The import paths "go list std" may print.
StdPaths == {"fmt", "io", "os"}

NoFile == <<>>

ZipFile(entries) == <<entries>>

\* What json.Marshal writes for the package loadPkgData built.
JsonOf(lp) == <<[ID |-> <<stdIDPrefix, lp>>, PkgPath |-> lp]>>

\* An error value of stdPkgData: its text, the package it names and the
\* error it wraps.
PkgError(text, lp, cause) == <<[text |-> text, pkg |-> lp, cause |-> cause]>>

EncodeError(lp, cause) == PkgError("error encoding package data for", lp, cause)

ZipError(lp, cause) == PkgError("error zipping package", lp, cause)

MarshalError == PkgError("json: unsupported type", "", Nil)

CreateError == PkgError("create out.zip", "", Nil)

WriteError == PkgError("write out.zip", "", Nil)

CloseError == PkgError("close out.zip", "", Nil)

PkgInit ==
    /\ listPkgs \in DistinctSeqsUpTo(StdPaths, MaxPkgs)
    /\ jsonPkgs = <<>>
    /\ errs = <<>>
    /\ wg = 0
    /\ worker = <<>>
    /\ pkgPc = "make"
    /\ pkgIdx = 0
    /\ zipFile = NoFile
    /\ pkgErr = Nil
    /\ coverIn = <<>>
    /\ coverVar = <<>>
    /\ pc = "done"
    /\ PackIdle
    /\ RelIdle
    /\ CompileIdle

\* make, make, wg.Add(len(listPkgs)).
MakeArrays ==
    /\ pkgPc = "make"
    /\ jsonPkgs' = [k \in 1..Len(listPkgs) |-> Nil]
    /\ errs' = [k \in 1..Len(listPkgs) |-> Nil]
    /\ wg' = Len(listPkgs)
    /\ worker' = [k \in 1..Len(listPkgs) |-> "unborn"]
    /\ pkgIdx' = 1
    /\ pkgPc' = "go"
    /\ UNCHANGED <<listPkgs, zipFile, pkgErr, compileV, packV, relV>>

\* for i := range listPkgs { go func(i int) {...}(i) }: one go statement.
GoWorker ==
    /\ pkgPc = "go"
    /\ IF pkgIdx <= Len(listPkgs)
       THEN /\ worker' = [worker EXCEPT ![pkgIdx] = "load"]
            /\ pkgIdx' = pkgIdx + 1
            /\ UNCHANGED pkgPc
       ELSE /\ pkgPc' = "wait"
            /\ UNCHANGED <<worker, pkgIdx>>
    /\ UNCHANGED <<listPkgs, jsonPkgs, errs, wg, zipFile, pkgErr, compileV, packV, relV>>

\* Worker i: lp := listPkgs[i] ... pkg := loadPkgData(...), which reads
\* listPkgs and listPkgsByPath and writes what it allocated itself.
WorkerLoad(i) ==
    /\ worker[i] = "load"
    /\ worker' = [worker EXCEPT ![i] = "marshal"]
    /\ UNCHANGED <<listPkgs, jsonPkgs, errs, wg, pkgPc, pkgIdx, zipFile, pkgErr,
                   compileV, packV, relV>>

\* Worker i: jsonPkgs[i], errs[i] = json.Marshal(&pkg).
WorkerMarshal(i) ==
    /\ worker[i] = "marshal"
    /\ \/ /\ jsonPkgs' = [jsonPkgs EXCEPT ![i] = JsonOf(listPkgs[i])]
          /\ errs' = [errs EXCEPT ![i] = Nil]
       \/ /\ jsonPkgs' = [jsonPkgs EXCEPT ![i] = Nil]
          /\ errs' = [errs EXCEPT ![i] = MarshalError]
    /\ worker' = [worker EXCEPT ![i] = "wrap"]
    /\ UNCHANGED <<listPkgs, wg, pkgPc, pkgIdx, zipFile, pkgErr, compileV, packV, relV>>

\* Worker i: if errs[i] != nil { errs[i] = fmt.Errorf(..., err) }, where err
\* is the named result of stdPkgData, which the main flow last wrote before
\* the go statements.
WorkerWrap(i) ==
    /\ worker[i] = "wrap"
    /\ errs' = IF errs[i] # Nil
               THEN [errs EXCEPT ![i] = EncodeError(listPkgs[i], pkgErr)]
               ELSE errs
    /\ worker' = [worker EXCEPT ![i] = "defer"]
    /\ UNCHANGED <<listPkgs, jsonPkgs, wg, pkgPc, pkgIdx, zipFile, pkgErr,
                   compileV, packV, relV>>

\* Worker i: the deferred wg.Done().
WorkerDone(i) ==
    /\ worker[i] = "defer"
    /\ wg' = wg - 1
    /\ worker' = [worker EXCEPT ![i] = "done"]
    /\ UNCHANGED <<listPkgs, jsonPkgs, errs, pkgPc, pkgIdx, zipFile, pkgErr,
                   compileV, packV, relV>>

\* A Wait that returns whatever the counter.
WaitNoBarrier ==
    /\ pkgPc = "wait"
    /\ pkgPc' = "errs"
    /\ UNCHANGED <<listPkgs, jsonPkgs, errs, wg, worker, pkgIdx, zipFile, pkgErr,
                   compileV, packV, relV>>

\* wg.Wait() returns when the counter is zero.
Wait ==
    /\ pkgPc = "wait"
    /\ wg = 0
    /\ pkgPc' = "errs"
    /\ UNCHANGED <<listPkgs, jsonPkgs, errs, wg, worker, pkgIdx, zipFile, pkgErr,
                   compileV, packV, relV>>

FirstError(es) ==
    LET k == CHOOSE j \in 1..Len(es) :
                 es[j] # Nil /\ \A h \in 1..(j - 1) : es[h] = Nil
    IN  es[k]

\* for _, err := range errs { if err != nil { return err } }.
ScanErrs ==
    /\ pkgPc = "errs"
    /\ IF \E k \in 1..Len(errs) : errs[k] # Nil
       THEN /\ pkgErr' = FirstError(errs)
            /\ pkgPc' = "done"
       ELSE /\ pkgPc' = "create"
            /\ UNCHANGED pkgErr
    /\ UNCHANGED <<listPkgs, jsonPkgs, errs, wg, worker, pkgIdx, zipFile,
                   compileV, packV, relV>>

\* zf, err := os.Create(outPath); zw := zip.NewWriter(zf).
CreateZip ==
    /\ pkgPc = "create"
    /\ \/ /\ zipFile' = ZipFile(<<>>)
          /\ pkgIdx' = 1
          /\ pkgPc' = "zip"
          /\ UNCHANGED pkgErr
       \/ /\ pkgErr' = CreateError
          /\ pkgPc' = "done"
          /\ UNCHANGED <<zipFile, pkgIdx>>
    /\ UNCHANGED <<listPkgs, jsonPkgs, errs, wg, worker, compileV, packV, relV>>

\* for i := range listPkgs { addFile(i) }: one iteration, zw.Create and
\* w.Write(jsonPkgs[i]).
AddFile ==
    /\ pkgPc = "zip"
    /\ IF pkgIdx <= Len(listPkgs)
       THEN \/ /\ zipFile' = ZipFile(Append(zipFile[1],
                                 [name |-> <<listPkgs[pkgIdx], ".json">>,
                                  data |-> jsonPkgs[pkgIdx]]))
               /\ pkgIdx' = pkgIdx + 1
               /\ UNCHANGED <<pkgPc, pkgErr>>
            \/ /\ pkgErr' = ZipError(listPkgs[pkgIdx], WriteError)
               /\ pkgPc' = "close"
               /\ UNCHANGED <<zipFile, pkgIdx>>
       ELSE /\ pkgPc' = "close"
            /\ UNCHANGED <<zipFile, pkgIdx, pkgErr>>
    /\ UNCHANGED <<listPkgs, jsonPkgs, errs, wg, worker, compileV, packV, relV>>

\* The two deferred closes, zw.Close() and then zf.Close(): the first that
\* fails sets the named result unless it already holds an error.
CloseZip ==
    /\ pkgPc = "close"
    /\ \E zwErr, zfErr \in {Nil, CloseError} :
          pkgErr' = IF pkgErr # Nil THEN pkgErr
                    ELSE IF zwErr # Nil THEN zwErr
                    ELSE zfErr
    /\ pkgPc' = "done"
    /\ UNCHANGED <<listPkgs, jsonPkgs, errs, wg, worker, pkgIdx, zipFile,
                   compileV, packV, relV>>

WorkerNext ==
    \E i \in 1..Len(worker) :
        \/ WorkerLoad(i)
        \/ WorkerMarshal(i)
        \/ WorkerWrap(i)
        \/ WorkerDone(i)

PkgNext ==
    \/ MakeArrays
    \/ GoWorker
    \/ WorkerNext
    \/ Wait
    \/ ScanErrs
    \/ CreateZip
    \/ AddFile
    \/ CloseZip

PkgSpec == PkgInit /\ [][PkgNext]_vars

CompilePkgNext ==
    \/ FilterSrcs
    \/ Next

CompilePkgSpec == CompilePkgInit /\ [][CompilePkgNext]_vars

TypeOK ==
    /\ pc \in {"filter", "coverVar", "coverVars", "workDir", "empty", "checkDeps", "importcfg", "cover", "nogo",
               "symabis", "compile", "asm", "asmPack", "cgo", "cgoPack", "join",
               "return", "done"}
    /\ nogo \in {"none", "spawned", "running", "sending", "exited"}
    /\ nogoChan \in {"nil", "open"}
    /\ cancelled \in BOOLEAN
    /\ Len(retErr) <= 1

\* ------------------------------------------------------------ properties

Happened(stage) == \E k \in 1..Len(log) : log[k].stage = stage

Succeeded(stage) == \E k \in 1..Len(log) : log[k].stage = stage /\ log[k].ok

Count(stage) == Cardinality({k \in 1..Len(log) : log[k].stage = stage})

IsPrefix(s, t) == Len(s) <= Len(t) /\ SubSeq(t, 1, Len(s)) = s

NoDuplicates(s) == \A j, k \in 1..Len(s) : j # k => s[j] # s[k]

\* The main-flow stages that come after the start of the nogo task.
StagesAfterNogoStart == {"symabis", "compile", "asm", "asmPack", "extract", "cgoPack"}

DeferStages ==
    {"defer cleanup", "defer removeEmpty", "defer removeImportcfg",
     "defer removeSymabis", "defer cancel", "defer nogoRecv"}

\* C1: with nogo configured, compileArchive never returns while the nogo
\* task is still running, and when a main-flow stage after the start of the
\* task has failed, the return is preceded by the cancellation and, after
\* it, by the receive of the task's result.
C1_CancelThenJoin ==
    /\ pc = "done" => nogo \in {"none", "exited"}
    /\ (pc = "done" /\ nogo # "none" /\ failed \cap StagesAfterNogoStart # {}) =>
           /\ cancelled
           /\ \E j, k \in 1..Len(log) :
                  /\ j < k
                  /\ log[j].stage = "defer cancel"
                  /\ log[k].stage = "defer nogoRecv"

C1_Witness ==
    /\ pc = "done"
    /\ "compile" \in failed
    /\ cancelled
    /\ nogo = "exited"
    /\ nogoRun.outcome = "exit"

\* C2: when the nogo process exits non-zero and no main-flow stage fails,
\* compileArchive returns an error whose message is the captured output of
\* the process.
C2_AnalyzerOutputIsTheError ==
    (pc = "done" /\ nogoRun.outcome = "exit" /\ failed = {"nogo"}) =>
        (retErr # Nil /\ Len(retErr) = 1 /\ retErr[1] = nogoRun.out)

C2_Witness ==
    /\ pc = "done"
    /\ nogoRun = [outcome |-> "exit", out |-> "nogo: finding"]
    /\ failed = {"nogo"}
    /\ Succeeded("asmPack")
    /\ retErr = <<"nogo: finding">>

\* C3: compileArchive returns nil only if every stage that ran succeeded,
\* the nogo process included when nogo is configured.
C3_NilOnlyIfAllSucceeded ==
    (pc \in {"return", "done"} /\ retErr = Nil) =>
        /\ failed = {}
        /\ \A k \in 1..Len(log) : log[k].ok
        /\ Succeeded("compile")
        /\ nogoPath # "" => nogoRun.outcome = "ok"

C3_Witness ==
    /\ pc = "done"
    /\ retErr = Nil
    /\ nogoRun.outcome = "ok"
    /\ Succeeded("asmPack")
    /\ Succeeded("cgoPack")
    /\ Succeeded("cover")

\* C4: after the first failed stage the main flow starts no other stage;
\* only deferred calls (removals, cleanup, cancellation and join) follow.
C4_NothingStartsAfterFailure ==
    \A k \in 1..Len(log) :
        ~log[k].ok => \A m \in (k + 1)..Len(log) : log[m].stage \in DeferStages

C4_Witness ==
    /\ pc = "done"
    /\ Len(srcs.sSrcs) = 2
    /\ Len(cgoArchivePaths) > 0
    /\ "asm" \in failed
    /\ Count("asm") = 1
    /\ ~Happened("asmPack")
    /\ ~Happened("extract")

\* C5: once the working directory exists, every return of compileArchive
\* has run the deferred cleanup, and nothing is left in the directory.
C5_CleanupOnEveryExit ==
    (pc = "done" /\ Succeeded("workDir")) =>
        /\ Happened("defer cleanup")
        /\ \A p \in files : Dir(p) # WorkDirPath

C5_Witness ==
    /\ pc = "done"
    /\ "extract" \in failed
    /\ Happened("defer cleanup")
    /\ Succeeded("asmPack")

ArchiveStages == {"compile", "asm", "asmPack", "extract", "cgoPack"}

Rank(stage) ==
    IF stage = "compile" THEN 1
    ELSE IF stage = "asm" THEN 2
    ELSE IF stage = "asmPack" THEN 3
    ELSE IF stage = "extract" THEN 4
    ELSE 5

WriteOrder ==
    /\ \A j, k \in 1..Len(log) :
           (j < k /\ log[j].stage \in ArchiveStages /\ log[k].stage \in ArchiveStages) =>
               \/ Rank(log[j].stage) < Rank(log[k].stage)
               \/ log[j].stage = log[k].stage /\ log[j].stage \in {"asm", "extract"}
    /\ (Happened("asmPack") \/ Happened("cgoPack")) => Succeeded("compile")
    /\ Happened("asmPack") => Count("asm") = Len(srcs.sSrcs)
    /\ Happened("cgoPack") =>
           /\ Count("extract") = Len(cgoArchivePaths)
           /\ Len(srcs.sSrcs) > 0 => Succeeded("asmPack")
    /\ archive # <<>> => IsPrefix(CompilerMembers, archive)

\* C6: the archive is written by the compiler first, then by the merge of
\* the assembly objects, then by the merge of the native objects, each
\* after the one before it has finished, and a merge only appends: the
\* members already in the archive stay as its prefix.
C6_ArchiveWriteOrder ==
    /\ []WriteOrder
    /\ [][archive # <<>> => IsPrefix(archive, archive')]_vars

C6_Witness ==
    /\ pc = "done"
    /\ Succeeded("asmPack")
    /\ Succeeded("cgoPack")
    /\ Len(archive) > Len(CompilerMembers) + Len(objPaths)

\* The object made from an assembly source.
AsmObjOf(src) == (CHOOSE e \in Range(objOf) : e.from = src).obj

RECURSIVE Flatten(_)
Flatten(ss) == IF ss = <<>> THEN <<>> ELSE Head(ss) \o Flatten(Tail(ss))

\* A sequence without the elements that occur earlier in it.
RECURSIVE KeepFirst(_)
KeepFirst(s) ==
    IF s = <<>> THEN <<>>
    ELSE LET front == KeepFirst(SubSeq(s, 1, Len(s) - 1))
             last == s[Len(s)]
         IN  IF last \in Range(front) THEN front ELSE Append(front, last)

ExpectedAsm == [k \in 1..Len(srcs.sSrcs) |-> AsmObjOf(srcs.sSrcs[k])]

ExpectedNative ==
    KeepFirst(Flatten([k \in 1..Len(cgoArchivePaths) |->
                          ArchiveMembers(cgoArchivePaths[k])]))

\* C7: on a successful run the members of the archive are the compiler's,
\* then one object per assembly source in input order, then the native
\* members in the order of the native-archive list.
C7_MembersInOrder ==
    (pc = "done" /\ retErr = Nil) =>
        archive = CompilerMembers \o ExpectedAsm \o ExpectedNative

C7_Witness ==
    /\ pc = "done"
    /\ retErr = Nil
    /\ Len(srcs.sSrcs) = 2
    /\ Len(cgoArchivePaths) = 2
    /\ cgoArchivePaths[1] # cgoArchivePaths[2]
    /\ Len(archive) = 7

NativeEntries == {e \in Range(objOf) : e.from \in CgoArchives}

\* C8: the names seen are shared by all native archives: no object is
\* extracted twice, an archive that was supplied before adds no object,
\* and each member comes from the first archive that holds its name.
C8_SeenNamesShared ==
    /\ NoDuplicates(allObjPaths)
    /\ \A k \in 1..Len(cgoArchivePaths) :
           (\E j \in 1..(k - 1) : cgoArchivePaths[j] = cgoArchivePaths[k]) =>
               ~\E e \in NativeEntries : e.at = k - 1
    /\ \A e \in NativeEntries :
           \A j \in 1..e.at : e.obj \notin Range(ArchiveMembers(cgoArchivePaths[j]))
    /\ pc = "cgoPack" => Range(allObjPaths) =
           {Join(WorkDirPath, n) : n \in UNION {Range(ArchiveMembers(cgoArchivePaths[k])) :
                                                  k \in 1..Len(cgoArchivePaths)}}

C8_Witness ==
    /\ pc = "cgoPack"
    /\ Len(cgoArchivePaths) = 2
    /\ cgoArchivePaths[1] = cgoArchivePaths[2]
    /\ Len(allObjPaths) = 2
    /\ ~("extract" \in failed)

\* No source was passed in: the list is empty or holds the placeholder only.
InputEmpty == \A k \in 1..Len(srcs.goSrcs) : srcs.goSrcs[k].filename = emptyPath

\* C9: without a Go source the placeholder is written, compiled alone and
\* the run succeeds if every stage does; with a Go source no placeholder is
\* written; the placeholder never outlives compileArchive.
C9_Placeholder ==
    /\ ~InputEmpty =>
           /\ ~Happened("writeEmpty")
           /\ emptyPath \notin files
           /\ emptyPath \notin Range(goSrcs)
    /\ (InputEmpty /\ pc = "compile") => (goSrcs = <<emptyPath>> /\ emptyPath \in files)
    /\ (InputEmpty /\ Happened("compile")) => goSrcs = <<emptyPath>>
    /\ (InputEmpty /\ pc = "done" /\ failed = {}) =>
           (retErr = Nil /\ Succeeded("compile") /\ IsPrefix(CompilerMembers, archive))
    /\ pc = "done" => emptyPath \notin files

C9_Witness ==
    /\ pc = "done"
    /\ InputEmpty
    /\ Succeeded("writeEmpty")
    /\ Succeeded("compile")
    /\ retErr = Nil

\* Some filtered source imports a package that is neither a pseudo-import,
\* a standard-library package nor a direct dependency.
UndeclaredImport ==
    \E k \in 1..Len(srcs.goSrcs) : \E imp \in srcs.goSrcs[k].imports :
        /\ imp \notin PseudoImports \cup StdPackages
        /\ \A j \in 1..Len(deps) : deps[j].importPath # imp

LaunchStages ==
    {"cover", "go runNogo", "symabis", "compile", "asm", "asmPack", "extract",
     "cgoPack", "importcfg"}

\* C10: with an undeclared import compileArchive fails, no subprocess and
\* no nogo task is ever started, and the output archive is never written.
C10_UndeclaredImportFailsFirst ==
    UndeclaredImport =>
        /\ \A k \in 1..Len(log) : log[k].stage \notin LaunchStages
        /\ nogo = "none"
        /\ archive = <<>>
        /\ outPath \notin files
        /\ pc \in {"return", "done"} => retErr # Nil

C10_Witness ==
    /\ pc = "done"
    /\ UndeclaredImport
    /\ "checkDeps" \in failed
    /\ retErr # Nil
    /\ Len(srcs.goSrcs) = 2

\* The names of the test packages among the inputs.
TestPackageNames == {"p_test"}

Position(list, x) == CHOOSE k \in 1..Len(list) : list[k] = x

\* list holds exactly the elements of Range(from) that are in S, in the
\* order they have in from.
KeepsExactly(list, from, S) ==
    /\ Range(list) = Range(from) \cap S
    /\ \A j, k \in 1..Len(list) :
           j < k => Position(from, list[j]) < Position(from, list[k])

TestSources == {f \in UnfilteredGoFiles : f.pkg \in TestPackageNames}

\* compileArchive has been called and has not yet touched its sources.
AtEntry == pc \in {"workDir", "empty"}

\* C11: compilePkg calls compileArchive with every source under "off", with
\* exactly the sources of a test package under "only" and with exactly the others
\* under "exclude",
\* each in input order; on the same input the "only" and the "exclude"
\* results are disjoint and together are the "off" result.
C11_TestFilter ==
    LET only == TestFilterSwitch("only", unfilteredSrcs).goSrcs
        exclude == TestFilterSwitch("exclude", unfilteredSrcs).goSrcs
        off == TestFilterSwitch("off", unfilteredSrcs).goSrcs
    IN  /\ (AtEntry /\ testFilter = "off") => srcs.goSrcs = unfilteredSrcs
        /\ (AtEntry /\ testFilter = "only") =>
               KeepsExactly(srcs.goSrcs, unfilteredSrcs, TestSources)
        /\ (AtEntry /\ testFilter = "exclude") =>
               KeepsExactly(srcs.goSrcs, unfilteredSrcs, UnfilteredGoFiles \ TestSources)
        /\ Range(only) \cap Range(exclude) = {}
        /\ Range(only) \cup Range(exclude) = Range(off)
        /\ Len(only) + Len(exclude) = Len(off)

C11_Witness ==
    /\ pc = "workDir"
    /\ testFilter = "only"
    /\ Len(unfilteredSrcs) = 2
    /\ Len(srcs.goSrcs) = 1
    /\ \E k \in 1..2 : /\ Base(unfilteredSrcs[k].filename) = "d_test.go"
                       /\ unfilteredSrcs[k].pkg = "p"

\* C12: a -testfilter value other than off, only and exclude makes compilePkg
\* return an error naming the value; no working directory is created, no
\* subprocess or task is started and compileArchive is never entered.
C12_InvalidTestFilter ==
    testFilter \notin {"off", "only", "exclude"} =>
        /\ pc \in {"filter", "done"}
        /\ pc = "done" => retErr = <<"invalid test filter \"" \o testFilter \o "\"">>
        /\ log = <<>>
        /\ defers = <<>>
        /\ files = {}
        /\ nogo = "none"
        /\ nogoChan = "nil"

C12_Witness ==
    /\ pc = "done"
    /\ testFilter = "bogus"
    /\ retErr = <<"invalid test filter \"bogus\"">>
    /\ Len(unfilteredSrcs) = 2

\* The arguments of the stage's runs, in the order of the runs.
ArgsOf(stage) ==
    LET at == SelectSeq([k \in 1..Len(log) |-> k], LAMBDA k : log[k].stage = stage)
    IN  [n \in 1..Len(at) |-> log[at[n]].arg]

\* The sources compileArchive works on, as paths.
OrigSrcs == [k \in 1..Len(srcs.goSrcs) |-> srcs.goSrcs[k].filename]

Selected(k) == OrigSrcs[k] \in Range(coverSrcs)

\* The list given to the compiler is the list of the sources with, at each
\* selected position, a file of the working directory that is neither the
\* original nor the file of another selected position.
Instrumented(list) ==
    /\ Len(list) = Len(OrigSrcs)
    /\ \A k \in 1..Len(list) :
           IF Selected(k)
           THEN /\ Dir(list[k]) = WorkDirPath
                /\ list[k] # OrigSrcs[k]
                /\ \A j \in 1..Len(list) : (j # k /\ Selected(j)) => list[j] # list[k]
           ELSE list[k] = OrigSrcs[k]

\* C13: with a coverage mode, the compiler is given a list of the length of
\* the sources in which each selected source is replaced, at its position,
\* by its own file in the working directory and every other source is the
\* original; while the loop runs this holds of the positions already passed.
C13_InstrumentedInPlace ==
    coverMode # "" =>
        /\ \A k \in 1..Len(log) : log[k].stage = "compile" => Instrumented(log[k].arg)
        /\ (pc = "cover" /\ idx = Len(goSrcs)) => Instrumented(goSrcs)
        /\ pc \in {"nogo", "symabis", "compile"} =>
               /\ Instrumented(goSrcs)
               /\ \A k \in 1..Len(goSrcs) : Selected(k) => goSrcs[k] \in files
        /\ pc = "cover" =>
               /\ Len(goSrcs) = Len(OrigSrcs)
               /\ \A k \in 1..Len(goSrcs) : k > idx => goSrcs[k] = OrigSrcs[k]

C13_Witness ==
    /\ coverMode # ""
    /\ Succeeded("compile")
    /\ Len(OrigSrcs) = 2
    /\ Selected(1) /\ Selected(2)
    /\ Count("cover") = 2

\* C14: without a coverage mode no source is instrumented and the compiler is
\* given every original path, whatever the coverage selection is; a selected
\* path that is not among the sources is never instrumented.
C14_NoModeNoInstrumentation ==
    /\ coverMode = "" =>
           /\ ~Happened("cover")
           /\ \A k \in 1..Len(log) : log[k].stage = "compile" => log[k].arg = OrigSrcs
           /\ \A f \in files : f \notin {CoverSrcName(i) : i \in 0..Len(OrigSrcs)}
    /\ \A k \in 1..Len(log) :
           log[k].stage = "cover" =>
               /\ log[k].arg.src \in Range(coverSrcs) \cap Range(OrigSrcs)
               /\ log[k].arg.src # Join("src", "z.go")
    /\ Count("cover") <= Cardinality(Range(coverSrcs) \cap Range(OrigSrcs))

C14_Witness ==
    /\ coverMode = ""
    /\ coverSrcs # <<>>
    /\ Range(coverSrcs) \cap Range(OrigSrcs) # {}
    /\ Succeeded("compile")

\* The stages of the main flow that come after the coverage loop.
StagesAfterCover ==
    {"go runNogo", "symabis", "compile", "asm", "asmPack", "extract", "cgoPack", "join"}

\* C15: when the instrumenter fails on a selected file, compileArchive
\* returns that error at once: no further file is instrumented and neither
\* the nogo task nor the compiler nor any later stage is started.
C15_CoverFailureStops ==
    "cover" \in failed =>
        /\ \A k \in 1..Len(log) :
               (log[k].stage = "cover" /\ ~log[k].ok) =>
                   \A j \in (k + 1)..Len(log) : log[j].stage \in DeferStages
        /\ \A k \in 1..Len(log) : log[k].stage \notin StagesAfterCover
        /\ nogo = "none"
        /\ nogoChan = "nil"
        /\ archive = <<>>
        /\ pc \in {"return", "done"}
        /\ retErr # Nil

C15_Witness ==
    /\ pc = "done"
    /\ "cover" \in failed
    /\ Count("cover") = 1
    /\ Cardinality(Range(coverSrcs) \cap Range(OrigSrcs)) = 2

\* Some run of the stage before position k of the log succeeded.
SucceededBefore(stage, k) ==
    \E j \in 1..(k - 1) : log[j].stage = stage /\ log[j].ok

\* C16: with nogo configured, the task is started before the compiler is
\* launched, and the main flow receives the task's result as its last stage:
\* after the compile step, after the merge of the assembly objects when
\* there are assembly sources and after the merge of the native objects when
\* there are native archives, each of them successful.
C16_NogoSpansTheBuild ==
    nogoPath # "" =>
        /\ \A k \in 1..Len(log) :
               log[k].stage \in {"symabis", "compile"} => SucceededBefore("go runNogo", k)
        /\ pc \in {"symabis", "compile"} => (Happened("go runNogo") /\ nogo # "none")
        /\ \A k \in 1..Len(log) :
               log[k].stage = "join" =>
                   /\ SucceededBefore("compile", k)
                   /\ Len(srcs.sSrcs) > 0 => SucceededBefore("asmPack", k)
                   /\ Len(cgoArchivePaths) > 0 => SucceededBefore("cgoPack", k)
                   /\ \A j \in (k + 1)..Len(log) : log[j].stage \in DeferStages

C16_Witness ==
    /\ pc = "done"
    /\ nogoPath # ""
    /\ Succeeded("join")
    /\ retErr = Nil
    /\ Len(srcs.sSrcs) > 0
    /\ Len(cgoArchivePaths) > 0

\* The receives of the task's result by the main flow.
Receives == Count("join") + Count("defer nogoRecv")

\* The task and its result in a state: none before the go statement; after
\* it at most one receive, which has happened exactly when the task is
\* over, and has happened when compileArchive has returned; a cancellation
\* only where no result was received before it, followed by the receive.
OneResultOneReceive ==
    /\ ~Happened("go runNogo") => (Receives = 0 /\ nogo = "none" /\ ~cancelled)
    /\ Happened("go runNogo") =>
           /\ Count("go runNogo") = 1
           /\ Receives <= 1
           /\ Receives = 1 <=> nogo = "exited"
           /\ Receives = 1 => nogoRun.outcome # "none"
           /\ pc = "done" => Receives = 1
    /\ cancelled <=> Happened("defer cancel")
    /\ Count("defer cancel") <= 1
    /\ \A k \in 1..Len(log) :
           log[k].stage = "defer cancel" =>
               \A j \in 1..(k - 1) : log[j].stage \notin {"join", "defer nogoRecv"}
    /\ Happened("defer nogoRecv") => Happened("defer cancel")
    /\ pc = "done" => Count("defer nogoRecv") = Count("defer cancel")

\* The task sets its result once and is never revived.
OneSend ==
    /\ nogoRun' # nogoRun => (nogoRun.outcome = "none" /\ nogo' = "sending")
    /\ nogoResult' # nogoResult => nogoRun.outcome = "none"
    /\ nogo = "exited" => nogo' = "exited"

\* C17: once started, the nogo task produces one result and the main flow
\* receives it once before compileArchive returns: at the final join or in
\* the deferred cancel-and-receive, never at both and never at neither; the
\* cancellation happens only where the result was not received before.
C17_OneResultOneReceive == []OneResultOneReceive /\ [][OneSend]_vars

C17_Witness ==
    /\ pc = "done"
    /\ Count("defer cancel") = 1
    /\ Count("defer nogoRecv") = 1
    /\ ~Happened("join")
    /\ nogoRun.outcome = "exit"
    /\ Succeeded("compile")

NogoStages == {"go runNogo", "join", "defer cancel", "defer nogoRecv"}

\* C18: without a nogo path no task and no nogo process is started, no facts
\* file is written, nothing is received or cancelled, and compileArchive
\* returns nil exactly when every stage of the main flow succeeded.
C18_NoNogoPath ==
    nogoPath = "" =>
        /\ nogo = "none"
        /\ nogoChan = "nil"
        /\ ~cancelled
        /\ nogoRun.outcome = "none"
        /\ nogoResult = Nil
        /\ outFactsPath \notin files
        /\ outFactsPath \notin DeclaredOutputs(nogoPath)
        /\ \A k \in 1..Len(log) : log[k].stage \notin NogoStages
        /\ "nogoJoin" \notin Range(defers) /\ "nogoRecv" \notin Range(defers)
        /\ "nogo" \notin failed
        /\ pc = "done" => (retErr = Nil <=> \A k \in 1..Len(log) : log[k].ok)

C18_Witness ==
    /\ nogoPath = ""
    /\ pc = "done"
    /\ retErr = Nil
    /\ Succeeded("asmPack")
    /\ Succeeded("cgoPack")

\* The stages that write the output archive.
WritingStages == {"compile", "asmPack", "cgoPack"}

\* One task at most is started, and each stage that writes the archive runs
\* at most once, one after the other in program order.
OneTaskAndOrderedWriters ==
    /\ Count("go runNogo") <= 1
    /\ nogo # "none" => Count("go runNogo") = 1
    /\ \A w \in WritingStages : Count(w) <= 1
    /\ \A j, k \in 1..Len(log) :
           /\ (log[j].stage = "compile" /\ log[k].stage \in {"asmPack", "cgoPack"}) => j < k
           /\ (log[j].stage = "asmPack" /\ log[k].stage = "cgoPack") => j < k

\* A step that changes the archive is the whole run of one writing stage by
\* the main flow, which is at that stage before the step and past it after;
\* a step of the nogo task leaves the archive alone.
ArchiveWrittenByOneStage ==
    /\ archive' # archive =>
           /\ pc \in WritingStages
           /\ pc' # pc
           /\ Len(log') = Len(log) + 1
           /\ log'[Len(log')].stage = pc
    /\ ((nogo' # nogo \/ nogoRun' # nogoRun) /\ log' = log) => archive' = archive

\* C19: besides the main flow at most one task, the nogo task, ever runs;
\* the three stages that write the output archive run one after the other,
\* each as one step of the main flow; the nogo task never writes the archive.
C19_OneTaskSequentialWriters ==
    []OneTaskAndOrderedWriters /\ [][ArchiveWrittenByOneStage]_vars

C19_Witness ==
    /\ nogo = "exited"
    /\ nogoRun.outcome = "ok"
    /\ outFactsPath \in files
    /\ Succeeded("compile")
    /\ Succeeded("asmPack")
    /\ Succeeded("cgoPack")
    /\ Len(archive) > Len(CompilerMembers)

\* The main flow is past the assembler stage.
PastAsmStage ==
    \/ pc \in {"cgo", "cgoPack", "join"}
    \/ Happened("extract") \/ Happened("cgoPack") \/ Happened("join")
    \/ (pc = "done" /\ retErr = Nil)

\* C20: the assembler stage runs exactly when there is an assembly source;
\* its n-th run assembles the n-th source into an object of its own in the
\* working directory; a failed run is the last one; the objects are merged
\* by one merge, given all of them in input order, after as many successful
\* runs as there are sources.
C20_AssemblerStage ==
    LET runs == ArgsOf("asm")
        n == Len(srcs.sSrcs)
    IN  /\ (Happened("asm") \/ Happened("asmPack") \/ pc \in {"asm", "asmPack"}) => n > 0
        /\ PastAsmStage => (n > 0 <=> Succeeded("asm"))
        /\ PastAsmStage => (n > 0 <=> Succeeded("asmPack"))
        /\ Len(runs) <= n
        /\ \A k \in 1..Len(runs) :
               /\ runs[k].src = srcs.sSrcs[k]
               /\ Dir(runs[k].obj) = WorkDirPath
               /\ \A j \in 1..Len(runs) : j # k => runs[j].obj # runs[k].obj
        /\ \A k \in 1..Len(log) :
               (log[k].stage = "asm" /\ ~log[k].ok) =>
                   \A j \in (k + 1)..Len(log) : log[j].stage \in DeferStages
        /\ Count("asmPack") <= 1
        /\ \A k \in 1..Len(log) :
               log[k].stage = "asmPack" =>
                   /\ Len(runs) = n
                   /\ log[k].arg = [m \in 1..n |-> runs[m].obj]
                   /\ \A j \in 1..Len(log) : log[j].stage = "asm" => (j < k /\ log[j].ok)
        /\ Succeeded("asmPack") =>
               SubSeq(archive, Len(CompilerMembers) + 1, Len(CompilerMembers) + n)
                   = [m \in 1..n |-> Base(runs[m].obj)]

C20_Witness ==
    /\ Len(srcs.sSrcs) = 2
    /\ Count("asm") = 2
    /\ Succeeded("asmPack")
    /\ pc = "done"

RECURSIVE SetToSortedSeq(_)
\* The elements of a set of directory names, each once, in sorted order.
SetToSortedSeq(S) ==
    IF S = {} THEN <<>>
    ELSE LET least == CHOOSE d \in S :
                 \A e \in S : Position(SortedDirs, d) <= Position(SortedDirs, e)
         IN  <<least>> \o SetToSortedSeq(S \ {least})

\* The include directories of the invocation, as the specification lists them.
IncludeDirs ==
    { IF goroot = "" THEN "pkg/include" ELSE "/goroot/pkg/include",
      IF tmpdir = "" THEN "/tmp/work" ELSE "tmp/work" }
        \cup {srcs.hSrcs[k].filename[1] : k \in 1..Len(srcs.hSrcs)}

\* C21: every assembler run is given exactly one -I entry per distinct
\* include directory (toolchain include directory, working directory,
\* directory of each header), in sorted order and with no other entry.
C21_IncludeArgs ==
    \A k \in 1..Len(log) :
        log[k].stage = "asm" =>
            LET dirs == SetToSortedSeq(IncludeDirs)
            IN  log[k].arg.flags =
                    [n \in 1..(2 * Len(dirs)) |->
                        IF n % 2 = 1 THEN "-I" ELSE dirs[n \div 2]]

\* The flag is in the command line, followed by the value.
Carries(cmd, flag, value) ==
    \E i \in 1..(Len(cmd) - 1) : cmd[i] = <<flag>> /\ cmd[i + 1] = value

HasFlag(cmd, flag) == \E i \in 1..Len(cmd) : cmd[i] = <<flag>>

\* C22: the compiler command line carries -p with the package path,
\* -importcfg with the generated import configuration and -pack; it carries
\* -asmhdr exactly when there is an assembly source and -symabis exactly
\* when a symbol-ABI file was produced; it ends with -o, the output path,
\* "--" and the sources.
C22_CompileCommandLine ==
    \A k \in 1..Len(log) :
        log[k].stage = "compile" =>
            LET cmd == log[k].cmd
                n == Len(log[k].arg)
            IN  /\ Carries(cmd, "-p", <<"example.com/p">>)
                /\ Carries(cmd, "-importcfg", importcfgPath)
                /\ importcfgPath # <<>>
                /\ HasFlag(cmd, "-pack")
                /\ HasFlag(cmd, "-asmhdr") <=> Len(srcs.sSrcs) > 0
                /\ HasFlag(cmd, "-asmhdr") => Carries(cmd, "-asmhdr", asmHdrPath)
                /\ HasFlag(cmd, "-symabis") <=> symabisPath # <<>>
                /\ HasFlag(cmd, "-symabis") => Carries(cmd, "-symabis", symabisPath)
                /\ n > 0
                /\ Len(cmd) >= n + 3
                /\ SubSeq(cmd, Len(cmd) - n + 1, Len(cmd)) = log[k].arg
                /\ cmd[Len(cmd) - n] = <<"--">>
                /\ cmd[Len(cmd) - n - 2] = <<"-o">>
                /\ Dir(cmd[Len(cmd) - n - 1]) = "/cwd/out"
                /\ Base(cmd[Len(cmd) - n - 1]) = "lib.a"

C22_Witness ==
    \E k \in 1..Len(log) :
        /\ log[k].stage = "compile"
        /\ log[k].ok
        /\ HasFlag(log[k].cmd, "-asmhdr")
        /\ HasFlag(log[k].cmd, "-symabis")
        /\ HasFlag(log[k].cmd, "-trimpath")
        /\ Len(log[k].arg) > 0

\* The flags of the compiler whose value is a path.
PathFlags == {"-o", "-importcfg", "-trimpath", "-I", "-asmhdr", "-symabis"}

\* C23: every path given to the compiler as the value of a flag (output
\* archive, import configuration, trimpath, include directory, assembly
\* header, symbol-ABI file) is absolute when the compiler is run.
C23_CompilerPathsAbsolute ==
    \A k \in 1..Len(log) :
        log[k].stage = "compile" =>
            \A i \in 2..Len(log[k].cmd) :
                (\E f \in PathFlags : log[k].cmd[i - 1] = <<f>>) =>
                    IsAbsDir(Dir(log[k].cmd[i]))

\* The OS-level errors of a process that could not be started.
StartErrors == {"context canceled", "fork/exec nogo: permission denied"}

\* C24: the result of runNogo tells three outcomes apart: nil for a process
\* that exited with status 0; for a process that ran and failed, an error
\* whose message is the captured output and nothing else; for a process
\* that could not be started, an error that holds the OS error after
\* "error running nogo: " and is not of the captured-output form.
C24_ThreeOutcomes ==
    /\ nogoRun.outcome = "none" => nogoResult = Nil
    /\ nogoRun.outcome = "ok" => nogoResult = Nil
    /\ nogoRun.outcome = "exit" =>
           (nogoResult = <<nogoRun.out>> /\ nogoResult # Nil /\ nogoRun.out \in NogoOutputs)
    /\ nogoRun.outcome = "start" =>
           /\ nogoResult \in {<<"error running nogo: " \o d>> : d \in StartErrors}
           /\ nogoResult # <<nogoRun.out>>
           /\ \A o \in NogoOutputs : nogoResult # <<o>>
    /\ nogoRun.outcome \in {"none", "ok", "exit", "start"}

C24_Witness ==
    /\ nogoRun.outcome = "start"
    /\ nogoRun.out = ""
    /\ nogoResult = <<"error running nogo: fork/exec nogo: permission denied">>
    /\ ~cancelled

\* The runs of a stage are for pairwise different inputs, at most as many as
\* there are inputs, and only the last of them can have failed.
RunsOncePerInput(stage, inputs) ==
    LET runs == ArgsOf(stage)
    IN  /\ Len(runs) <= Cardinality(inputs)
        /\ \A j \in 1..Len(runs) : runs[j].src \in inputs
        /\ \A j, k \in 1..Len(runs) : j # k => runs[j].src # runs[k].src

OnceAtMost ==
    /\ \A stage \in {"compile", "go runNogo", "asmPack", "cgoPack", "symabis",
                      "importcfg", "join"} : Count(stage) <= 1
    /\ RunsOncePerInput("asm", Range(srcs.sSrcs))
    /\ RunsOncePerInput("cover", Range(coverSrcs) \cap Range(OrigSrcs))
    /\ \A k \in 1..Len(log) :
           ~log[k].ok => \A j \in (k + 1)..Len(log) : log[j].stage \in DeferStages

\* The nogo process is started only by the newly spawned task, and the task
\* is spawned only when there is none.
OneLaunch ==
    /\ (nogo' = "running" /\ nogo # "running") => nogo = "spawned"
    /\ (nogo' = "spawned" /\ nogo # "spawned") => (nogo = "none" /\ ~Happened("go runNogo"))
    /\ nogo \in {"sending", "exited"} => nogo' \in {"sending", "exited"}

\* C25: nothing is retried: the compiler, each archive merge and the nogo
\* task and process run at most once, the assembler at most once per
\* assembly source and the coverage tool at most once per selected source;
\* after a failed run no stage runs again.
C25_NothingRetried == []OnceAtMost /\ [][OneLaunch]_vars

C25_Witness ==
    /\ pc = "done"
    /\ Count("compile") = 1
    /\ ~Succeeded("compile")
    /\ Count("cover") = 2
    /\ nogo = "exited"

\* The dependencies that have a facts file, as the inputs list them.
DepsWithFacts == {"example.com/dep"}

\* C26: nogo is given the source list and the import configuration that the
\* compiler is given, one standard-import entry per standard-library import
\* of the sources, and a fact entry for each dependency that has a facts
\* file and for no other dependency.
C26_NogoArguments ==
    nogoRun.outcome # "none" =>
        /\ nogoArgs.srcs = goSrcs
        /\ nogoArgs.srcs # <<>>
        /\ nogoArgs.importcfg = importcfgPath
        /\ \A k \in 1..Len(log) :
               log[k].stage = "compile" =>
                   /\ log[k].arg = nogoArgs.srcs
                   /\ Carries(log[k].cmd, "-importcfg", nogoArgs.importcfg)
        /\ nogoArgs.stdimport =
               UNION {srcs.goSrcs[k].imports \cap {"fmt", "os"} : k \in 1..Len(srcs.goSrcs)}
        /\ {nogoArgs.fact[k].importPath : k \in 1..Len(nogoArgs.fact)}
               = {deps[k].importPath : k \in 1..Len(deps)} \cap DepsWithFacts
        /\ Len(nogoArgs.fact) =
               Cardinality({k \in 1..Len(deps) : deps[k].importPath \in DepsWithFacts})
        /\ \A k \in 1..Len(nogoArgs.fact) :
               /\ nogoArgs.fact[k].xFile = <<"deps", "dep.x">>
               /\ nogoArgs.fact[k].importPath # "example.com/bare"

C26_Witness ==
    /\ nogoRun.outcome = "ok"
    /\ Len(deps) = 2
    /\ Len(nogoArgs.fact) = 1
    /\ Succeeded("compile")
    /\ Dir(nogoArgs.srcs[1]) = WorkDirPath

\* The paths written in the working directory so far, stage by stage: the
\* placeholder, the instrumented sources, the assembly header, the
\* assembler objects and the members extracted from the native archives.
WrittenInWorkDir ==
    (IF Succeeded("writeEmpty") THEN <<emptyPath>> ELSE <<>>)
        \o [k \in 1..Len(ArgsOf("cover")) |-> ArgsOf("cover")[k].out]
        \o (IF Succeeded("compile") /\ asmHdrPath # <<>> THEN <<asmHdrPath>> ELSE <<>>)
        \o objPaths
        \o allObjPaths

\* C27: the paths the stages write in the working directory are pairwise
\* distinct.
C27_DistinctWorkDirPaths ==
    /\ NoDuplicates(WrittenInWorkDir)
    /\ \A k \in 1..Len(WrittenInWorkDir) : Dir(WrittenInWorkDir[k]) = WorkDirPath

\* The characters of an identifier.
IdentChars == {"a", "C", "o", "v", "e", "r", "g", "_", "0"}

IsIdentifier(word) ==
    /\ word # <<>>
    /\ \A k \in 1..Len(word) : word[k] \in IdentChars
    /\ word[1] # "0"

\* C28: the coverage identifier derived from any import path and any file
\* path is a valid identifier.
C28_CoverVarIsIdentifier ==
    (pc = "done" /\ coverIn # <<>>) => IsIdentifier(coverVar)

\* The members the pack tool was given: the -obj objects, then those of the
\* -arc archive as they were when the tool started.
GivenObjects ==
    [k \in 1..Len(packArgs.obj) |-> Member(packArgs.obj[k], packArgs.obj[k])]

PackFailedEarly ==
    \E k \in 1..Len(packRan) : ~packRan[k].ok /\ packRan[k].cmd \in {"copy", "t", "x"}

PackAppendRan == \E k \in 1..Len(packRan) : packRan[k].cmd = "r"

PackInputUntouched ==
    packPc # "idle" => packFs[inArchive] = ArchiveFile(InMembers)

PackAppendsInOrder ==
    (packPc = "done" /\ packErr = Nil)
        => \E arcMembers \in SeqsUpTo(MemberChoices, MaxMem) :
              /\ packArgs.arc # "" => packFs[ArcPath].members = arcMembers
              /\ packArgs.arc = "" => arcMembers = <<>>
              /\ packFs[outArchive].members = InMembers \o GivenObjects \o arcMembers

PackStopsOnFailure ==
    PackFailedEarly => (packPc = "done" /\ packErr # Nil /\ ~PackAppendRan)

\* C29: the pack tool never modifies the input archive; a run that succeeds
\* leaves in the output the input's members, then the -obj objects in
\* command-line order, then the members of the -arc archive; and a failure of
\* the copy, the listing or the extraction returns an error without running
\* the append.
C29_PackAppendsToCopy ==
    /\ PackInputUntouched
    /\ PackAppendsInOrder
    /\ PackStopsOnFailure

\* The steps that publish: the push of the release branch, the archive, its
\* upload to the mirror, the GitHub release.
PublishingSteps == {"push", "archive", "mirror", "release"}

Published == \E k \in 1..Len(relRan) : relRan[k].cmd \in PublishingSteps

RelSucceeded(cmd) == \E k \in 1..Len(relRan) : relRan[k] = Step(cmd, TRUE, <<>>)

PublishedRelease(version) ==
    \E k \in 1..Len(releases) : releases[k].name = Tag(version) /\ ~releases[k].draft

\* Nothing is published unless the four conditions hold.
PublishesOnlyWhenReady ==
    Published =>
        /\ defVersion = relArgs.version
        /\ oldVersion = relArgs.version
        /\ gitLog[Len(gitLog)] # SetMsg(relArgs.version)
        /\ ~PublishedRelease(relArgs.version)
        /\ relArgs.runTests => RelSucceeded("test")

\* Once the recorded version was read and differs, no step changes the
\* remote branch, the releases, the mirror or the archive, and the only
\* steps taken are the commit of the version and nothing after it.
OnlyCommitsVersion ==
    (relPc # "idle" /\ oldVersion # "" /\ oldVersion # relArgs.version)
        => /\ UNCHANGED <<remoteLog, releases, mirror, archFile>>
           /\ relPc' = "done"
           /\ relRan'[Len(relRan')].cmd = "setVersion"

At(stage) == {k \in 1..Len(log) : log[k].stage = stage}

\* The objects the native archives gave, in the order they were extracted,
\* each with the position of its archive in the list.
NativeOrder == SelectSeq(objOf, LAMBDA e : e.from \in CgoArchives)

ExtractedInSuppliedOrder ==
    /\ \A j, k \in 1..Len(NativeOrder) : j < k => NativeOrder[j].at <= NativeOrder[k].at
    /\ \A k \in 1..Len(NativeOrder) :
           /\ NativeOrder[k].at < Len(cgoArchivePaths)
           /\ NativeOrder[k].from = cgoArchivePaths[NativeOrder[k].at + 1]
    /\ [k \in 1..Len(NativeOrder) |-> Join(WorkDirPath, NativeOrder[k].obj)] = allObjPaths

\* C31: the native-archive stage runs exactly when an archive is supplied
\* (and the flow gets that far); every archive is extracted, in the order
\* supplied, before the one merge of all extracted objects, which comes
\* after the merge of the assembly objects; a failed extraction ends the
\* invocation with an error and no native object in the archive.
C31_NativeRepack ==
    /\ (At("extract") \cup At("cgoPack")) # {} => Len(cgoArchivePaths) > 0
    /\ (Len(cgoArchivePaths) > 0 /\ (pc = "join" \/ (pc = "done" /\ retErr = Nil)))
           => Succeeded("cgoPack")
    /\ Cardinality(At("cgoPack")) <= 1
    /\ ExtractedInSuppliedOrder
    /\ \A m \in At("cgoPack") :
           /\ \A k \in At("extract") : k < m /\ log[k].ok
           /\ Cardinality(At("extract")) = Len(cgoArchivePaths)
           /\ log[m].arg = allObjPaths
           /\ \A k \in At("asm") \cup At("asmPack") : k < m
           /\ Len(srcs.sSrcs) > 0 => Succeeded("asmPack")
    /\ "extract" \in failed =>
           /\ At("cgoPack") = {}
           /\ pc \in {"return", "done"}
           /\ retErr # Nil
           /\ archive = AppendFiles(CompilerMembers, objPaths)

C31_Witness ==
    /\ pc = "done"
    /\ retErr = Nil
    /\ Len(cgoArchivePaths) = 2
    /\ cgoArchivePaths[1] # cgoArchivePaths[2]
    /\ Len(srcs.sSrcs) > 0
    /\ Succeeded("cgoPack")
    /\ Cardinality(At("extract")) = 2

\* The files the main flow creates one by one and removes one by one.
TempFilesGone ==
    /\ emptyPath \notin files
    /\ symabisTmp \notin files
    /\ importcfgPath # <<>> => importcfgPath \notin files

\* C32: the placeholder source, the import-configuration file (which lies
\* in the directory of the output archive, not in the working directory)
\* and the symbol-ABI file are removed on every return that follows their
\* creation, the return with an error of a symbol-ABI generation that left
\* a file included.
C32_TempFilesRemoved ==
    /\ importcfgPath # <<>> =>
           /\ Dir(importcfgPath) = Dir(outPath)
           /\ Dir(importcfgPath) # WorkDirPath
    /\ pc \in {"nogo", "symabis"} =>
           /\ Succeeded("writeEmpty") => emptyPath \in files
           /\ importcfgPath \in files
    /\ (pc = "compile" /\ symabisPath # <<>>) => symabisPath \in files
    /\ pc = "done" =>
           /\ TempFilesGone
           /\ Succeeded("writeEmpty") => Happened("defer removeEmpty")
           /\ Succeeded("importcfg") => Happened("defer removeImportcfg")
           /\ symabisPath # <<>> => Happened("defer removeSymabis")

C32_Witness ==
    /\ pc = "done"
    /\ "symabis" \in failed
    /\ symabisPath # <<>>
    /\ Succeeded("writeEmpty")
    /\ Happened("defer removeSymabis")
    /\ Happened("defer removeEmpty")
    /\ Happened("defer removeImportcfg")

\* C33: every assembler run gets the configured assembler flags, as they
\* were given, and an -I for each include directory.
C33_AsmFlagsReachAssembler ==
    \A k \in At("asm") :
        /\ IsPrefix(asmFlags, log[k].arg.flags)
        /\ \A d \in IncludeSet :
               \E j \in 1..(Len(log[k].arg.flags) - 1) :
                   log[k].arg.flags[j] = "-I" /\ log[k].arg.flags[j + 1] = d

\* The flags the assembler would get from the same configuration and the
\* same working directory in a process whose GOROOT variable is gorootEnv.
AsmFlagsUnder(gorootEnv) ==
    {AsmFlagsOfBlock \o IncludeFlags(SortStrings(MakeStrings(Len(order)) \o order)) :
        order \in MapOrders(IncludeSetOf(gorootEnv, WorkDirPath))}

\* C34: the arguments of a subprocess are those any other environment would
\* give with the same configuration: the flags of every assembler run are
\* the flags of a run whose GOROOT variable has any other value.
C34_ArgsIgnoreEnvironment ==
    \A k \in At("asm") : \A gorootEnv \in GorootChoices :
        log[k].arg.flags \in AsmFlagsUnder(gorootEnv)

\* The task was started and its result is not received yet.
TaskPending == nogo \in {"spawned", "running", "sending"}

\* The sources handed to the task that lie in the working directory: the
\* instrumented ones and the placeholder.
SourcesInWorkDir == {f \in Range(goSrcs) : Dir(f) = WorkDirPath}

\* C35: as long as the result of the task is not received, the files it
\* reads are there: the import-configuration file, the working directory and
\* the instrumented sources and the placeholder in it; their removals come
\* after the receive on every return.
C35_AnalyzerInputsKept ==
    /\ TaskPending =>
           /\ importcfgPath \in files
           /\ Join(WorkDirPath, "") \in files
           /\ SourcesInWorkDir \subseteq files
           /\ ~Happened("defer removeImportcfg")
           /\ ~Happened("defer removeEmpty")
           /\ ~Happened("defer cleanup")
    /\ \A k \in At("defer removeImportcfg") \cup At("defer removeEmpty")
                 \cup At("defer cleanup") :
           Happened("go runNogo") =>
               \E j \in 1..(k - 1) : log[j].stage \in {"join", "defer nogoRecv"}

C35_Witness ==
    /\ pc = "done"
    /\ "compile" \in failed
    /\ Happened("go runNogo")
    /\ Happened("defer nogoRecv")
    /\ Happened("defer removeEmpty")
    /\ Happened("defer removeImportcfg")
    /\ Happened("defer cleanup")

\* The error each stage after the start of the task returns when it fails.
MainFlowError(stage) ==
    CASE stage = "symabis" -> <<"symabis: asm failed">>
      [] stage = "compile" -> <<"compile: exit status 1">>
      [] stage = "asm" -> <<"asm: exit status 1">>
      [] stage = "extract" -> <<"extract: cannot read archive">>
      [] stage \in {"asmPack", "cgoPack"} -> <<"pack: exit status 1">>

\* C36: when a stage of the main flow fails while the task runs, what
\* compileArchive returns is the error of that stage, whatever the task
\* sends; the deferred function receives the task's result and drops it.
C36_MainErrorWins ==
    /\ \A stage \in StagesAfterNogoStart \cap failed :
           /\ pc \in {"return", "done"}
           /\ retErr = MainFlowError(stage)
           /\ ~Happened("join")
           /\ (pc = "done" /\ Happened("go runNogo")) =>
                  Happened("defer nogoRecv") /\ nogo = "exited"
    /\ (pc = "done" /\ retErr # Nil /\ retErr = nogoResult) => Happened("join")

C36_Witness ==
    /\ pc = "done"
    /\ "compile" \in failed
    /\ "nogo" \in failed
    /\ nogoRun.outcome = "exit"
    /\ nogoResult # Nil
    /\ retErr = <<"compile: exit status 1">>

\* compileArchive has returned and no task is left behind.
AllTerminated == pc = "done" /\ defers = <<>> /\ nogo \in {"none", "exited"}

\* C37: compileArchive returns and the task ends, in every run: a result
\* the task is sending is received, whether the task finishes before,
\* during or after the stages of the main flow, and whether they succeed
\* or fail.
C37_AlwaysTerminates ==
    /\ <>[]AllTerminated
    /\ (nogo = "spawned") ~> (nogo = "exited")

C37_Witness ==
    /\ AllTerminated
    /\ cancelled
    /\ nogo = "exited"
    /\ nogoRun.outcome = "exit"
    /\ "extract" \in failed

\* What the main flow shares with the task.
SharedWithTask == <<goSrcs, deps, stdImports, importcfgPath>>

SameSourceList ==
    /\ \A k \in At("cover"), j \in At("go runNogo") : k < j
    /\ nogoArgs # <<>> =>
           /\ nogoArgs.srcs = goSrcs
           /\ nogoArgs.importcfg = importcfgPath
           /\ nogoArgs.stdimport = stdImports
           /\ nogoArgs.x = outFactsPath
           /\ \A k \in At("compile") : log[k].arg = nogoArgs.srcs

\* C38: once the task is started the main flow leaves the source list, the
\* dependencies, the standard imports and the import-configuration path as
\* they are; the instrumented sources were substituted before, so the
\* compiler and nogo are given the same source list.
C38_SharedDataUntouched ==
    /\ []SameSourceList
    /\ [][Happened("go runNogo") => UNCHANGED SharedWithTask]_vars

C38_Witness ==
    /\ pc = "done"
    /\ nogoArgs # <<>>
    /\ Succeeded("cover")
    /\ Succeeded("compile")
    /\ Len(goSrcs) = 2
    /\ \A k \in 1..Len(goSrcs) : goSrcs[k] = CoverSrcName(k - 1)
    /\ nogoArgs.srcs = goSrcs

\* C39: two different sources selected in one invocation get different
\* coverage identifiers.
C39_CoverVarInjective ==
    (pc = "done" /\ coverIn # <<>> /\ Len(coverVar) = 2)
        => coverVar[1] # coverVar[2]

WorkersFinished == \A k \in 1..Len(worker) : worker[k] = "done"

\* A step changes slot k of the two arrays only if it is a step of worker k.
OwnSlotOnly ==
    pkgPc \notin {"idle", "make"} =>
        \A k \in 1..Len(listPkgs) :
            (jsonPkgs'[k] # jsonPkgs[k] \/ errs'[k] # errs[k])
                => (worker[k] \in {"marshal", "wrap"} /\ worker'[k] # worker[k])

\* The main flow is at or past the statements that read errs and jsonPkgs
\* only when every worker has finished.
ReadsAfterWorkers ==
    pkgPc \in {"errs", "create", "zip", "close", "done"} => WorkersFinished

EncodeFailed == \E k \in 1..Len(errs) : errs[k] # Nil

\* With a package that failed to encode the output file is never created,
\* and the function returns an error.
NoZipOnEncodeError ==
    EncodeFailed =>
        /\ zipFile = NoFile
        /\ pkgPc = "done" => pkgErr # Nil

\* C40: in stdPkgData each worker writes only its own slot of jsonPkgs and
\* errs, the main flow reads the arrays only after all workers have
\* finished, and when a package failed to encode the function returns an
\* error without creating the output zip file.
C40_WorkersOwnSlots ==
    /\ [](ReadsAfterWorkers /\ NoZipOnEncodeError)
    /\ [][OwnSlotOnly]_vars

C40_Witness ==
    /\ pkgPc = "done"
    /\ Len(listPkgs) = 2
    /\ jsonPkgs[1] = JsonOf(listPkgs[1])
    /\ errs[1] = Nil
    /\ jsonPkgs[2] = Nil
    /\ errs[2] = EncodeError(listPkgs[2], Nil)
    /\ pkgErr = errs[2]
    /\ zipFile = NoFile

====
